---- MODULE Spec2Model ----
(***************************************************************************)
(* A model of the knight's-tour puzzle (tour generation, the uniqueness    *)
(* solver unique_solution) and of the Hamilton-cycle library.              *)
(*                                                                         *)
(* C arrays are modelled as functions over 0..n-1 so that every index      *)
(* expression of the source (8 * pos + i, 2 * i + 1, w * h + 1) is kept.   *)
(* The characters '0'..'8' of conn_pairs are modelled by the integers 0..8.*)
(***************************************************************************)
EXTENDS Integers, Sequences, FiniteSets, TLC

(***************************************************************************)
(* Parameters.  new_game_desc asserts w > 5 && h > 5; the default board is *)
(* 6 x 6.                                                                  *)
(***************************************************************************)
W == 6
H == 6
MAX_UNVISITED == W + H

\* Seeds of the random source the generator is started with.
SeedList ==
    <<10543, 10519, 15761, 13132, 13540, 26766, 10487, 53299, 53979, 20361,
      18682, 15797>>
NumSeeds == 10

(***************************************************************************)
(* GeometryModel                                                           *)
(***************************************************************************)
knight_moves ==
    [i \in 0..8 |->
        << [x |-> 1, y |-> -2], [x |-> 2, y |-> -1], [x |-> 2, y |-> 1],
           [x |-> 1, y |-> 2], [x |-> -1, y |-> 2], [x |-> -2, y |-> 1],
           [x |-> -2, y |-> -1], [x |-> -1, y |-> -2], [x |-> 0, y |-> 0] >>[i + 1]]

\* A move that tests the index of the destination and not its column.
attempt_move_by_index(pos, move, w, h) ==
    LET newpos == pos + move.y * w + move.x
    IN  IF 0 <= newpos /\ newpos < w * h
        THEN newpos
        ELSE -1

attempt_move(pos, move, w, h) ==
    LET newx == (pos % w) + move.x
        newy == (pos \div w) + move.y
    IN  IF 0 <= newx /\ newx < w /\ 0 <= newy /\ newy < h
        THEN newy * w + newx
        ELSE -1

\* Counts the neighbours whose grid value is 9.
num_neighbors(grid, pos, w, h) ==
    Cardinality({i \in 0..7 :
        LET neighbor == attempt_move(pos, knight_moves[i], w, h)
        IN  neighbor >= 0 /\ grid[neighbor] = 9})

(***************************************************************************)
(* The random source.  random_state is a deterministic stream fixed by its *)
(* seed; the stream is modelled by a linear congruential generator.        *)
(* random_upto(rs, n) advances the stream and yields a value in [0, n);    *)
(* shuffle is the Fisher-Yates shuffle over random_upto.                   *)
(***************************************************************************)
random_next(rs) == (75 * rs + 74) % 65537

random_upto(rs, n) == random_next(rs) % n

RECURSIVE shuffle_from(_, _, _)
shuffle_from(array, i, rs) ==
    IF i < 1
    THEN [array |-> array, rs |-> rs]
    ELSE LET j == random_upto(rs, i + 1)
         IN  shuffle_from([array EXCEPT ![i] = array[j], ![j] = array[i]],
                          i - 1, random_next(rs))

shuffle(array, nelts, rs) == shuffle_from(array, nelts - 1, rs)

(***************************************************************************)
(* Game state                                                              *)
(***************************************************************************)
init_game_state(w, h) ==
    [ w |-> w, h |-> h,
      nunvisited |-> -1,
      ncells |-> w * h,
      ends |-> [i \in 0..1 |-> -1],
      grid |-> [i \in 0..(w * h - 1) |-> 0],
      opposite_ends |-> [i \in 0..(w * h + 1) |-> i],
      conn_pairs |-> [i \in 0..(2 * w * h - 1) |-> 8],
      start_pairs |-> [i \in 0..(2 * w * h - 1) |-> FALSE],
      cx |-> -1, cy |-> -1 ]

\* A joining that never marks a or b as the middle of a path.
connect_ends_far_ends_only(opposite_ends, a, b) ==
    LET a_end == opposite_ends[a]
        b_end == opposite_ends[b]
    IN  [opposite_ends EXCEPT ![a_end] = b_end, ![b_end] = a_end]

connect_ends(opposite_ends, a, b) ==
    LET a_end == opposite_ends[a]
        b_end == opposite_ends[b]
        o1 == [opposite_ends EXCEPT ![a_end] = b_end]
        o2 == [o1 EXCEPT ![b_end] = a_end]
        o3 == IF o2[o2[a]] # a THEN [o2 EXCEPT ![a] = -1] ELSE o2
        o4 == IF o3[o3[b]] # b THEN [o3 EXCEPT ![b] = -1] ELSE o3
    IN  o4

\* connect_ends indexes the map with the two entries it reads: with a
\* negative entry the access is outside the array.
connect_ends_in_bounds(opposite_ends, a, b) ==
    opposite_ends[a] >= 0 /\ opposite_ends[b] >= 0

(***************************************************************************)
(* The to-do queue (tdq): a first-in first-out queue of cell indices that  *)
(* holds each index at most once.                                          *)
(***************************************************************************)
tdq_new(n) == <<>>

tdq_fill(n) == [i \in 1..n |-> i - 1]

tdq_add(tdq, k) ==
    IF \E i \in 1..Len(tdq) : tdq[i] = k THEN tdq ELSE Append(tdq, k)

\* The index tdq_remove returns (-1 when the queue is empty) ...
tdq_remove(tdq) == IF tdq = <<>> THEN -1 ELSE Head(tdq)

\* ... and the queue it leaves.
tdq_removed(tdq) == IF tdq = <<>> THEN tdq ELSE Tail(tdq)

stdq_add(tdq, k) == IF 0 <= k THEN tdq_add(tdq, k) ELSE tdq

(***************************************************************************)
(* PuzzleCodec: the description string of new_game_desc and new_game.      *)
(* A string is a sequence of one-character strings.                        *)
(***************************************************************************)
digit_char(d) == <<"0", "1", "2", "3", "4", "5", "6", "7", "8", "9">>[d + 1]

is_digit(ch) == ch \in {digit_char(d) : d \in 0..9}

\* ch - '0' for a digit.
char_value(ch) == CHOOSE d \in 0..9 : digit_char(d) = ch

\* A printer that writes the last decimal digit only.
print_int_last_digit(n) == <<digit_char(n % 10)>>

\* sprintf("%d") of a number that is not negative.
RECURSIVE print_int(_)
print_int(n) ==
    IF n < 10
    THEN <<digit_char(n)>>
    ELSE Append(print_int(n \div 10), digit_char(n % 10))

\* The grid part of the description: one digit per cell.
encode_grid(g) == [k \in 1..(g.w * g.h) |-> digit_char(g.grid[k - 1])]

\* The connection part: "<move><cell>." for every slot of conn_pairs that
\* holds a move towards a cell of higher index.
RECURSIVE encode_conns(_, _)
encode_conns(g, i) ==
    IF i = 2 * g.w * g.h
    THEN <<>>
    ELSE LET move == g.conn_pairs[i]
         IN  IF /\ move < 8
                /\ i \div 2 < attempt_move(i \div 2, knight_moves[move], g.w, g.h)
             THEN <<digit_char(move)>> \o print_int(i \div 2) \o <<".">>
                      \o encode_conns(g, i + 1)
             ELSE encode_conns(g, i + 1)

\* The string new_game_desc returns: the last character written, a period,
\* is replaced by the terminator.
encode_desc(g) ==
    LET string == encode_grid(g) \o <<".">> \o encode_conns(g, 0)
    IN  SubSeq(string, 1, Len(string) - 1)

\* sscanf("%d%n") at index p of the string: the number read and the number
\* of characters it took.
RECURSIVE scan_int(_, _, _, _)
scan_int(string, p, value, n) ==
    IF p + n <= Len(string) /\ is_digit(string[p + n])
    THEN scan_int(string, p, 10 * value + char_value(string[p + n]), n + 1)
    ELSE [pos |-> value, n |-> n]

\* The first loop of new_game: the kind of every cell.
RECURSIVE read_grid(_, _, _)
read_grid(g, string, i) ==
    IF i = g.w * g.h
    THEN g
    ELSE LET c == char_value(string[i + 1])
             g1 == [g EXCEPT !.grid[i] = c]
         IN  read_grid(
                 IF c = 1
                 THEN [g1 EXCEPT !.ends[IF g.ends[0] > -1 THEN 1 ELSE 0] = i]
                 ELSE IF c = 0
                 THEN [g1 EXCEPT !.nunvisited = @ + 1, !.opposite_ends[i] = -1]
                 ELSE g1,
                 string, i + 1)

\* The second loop of new_game: one permanent connection per ".<move><cell>".
RECURSIVE read_conns(_, _, _)
read_conns(g, string, p) ==
    IF p > Len(string)
    THEN g
    ELSE LET i == char_value(string[p + 1])
             num == scan_int(string, p + 2, 0, 0)
             start == num.pos
             index == 2 * start + (IF g.conn_pairs[2 * start] # 8 THEN 1 ELSE 0)
             cp1 == [g.conn_pairs EXCEPT ![index] = i]
             sp1 == [g.start_pairs EXCEPT ![index] = TRUE]
             pos == start + knight_moves[i].y * g.w + knight_moves[i].x
             index2 == 2 * pos + (IF cp1[2 * pos] # 8 THEN 1 ELSE 0)
             cp2 == [cp1 EXCEPT ![index2] = (i + 4) % 8]
             sp2 == [sp1 EXCEPT ![index2] = TRUE]
         IN  read_conns(
                 [g EXCEPT !.conn_pairs = cp2, !.start_pairs = sp2,
                           !.opposite_ends = connect_ends(@, start, pos)],
                 string, p + 2 + num.n)

new_game(w, h, string) ==
    LET g1 == read_grid(init_game_state(w, h), string, 0)
        g2 == [g1 EXCEPT !.ncells = w * h - g1.nunvisited,
                         !.opposite_ends[w * h] = w * h,
                         !.opposite_ends[w * h + 1] = w * h + 1]
        g3 == [g2 EXCEPT !.opposite_ends = connect_ends(@, w * h, g2.ends[0])]
        g4 == [g3 EXCEPT !.opposite_ends = connect_ends(@, w * h + 1, g3.ends[1])]
    IN  read_conns(g4, string, w * h + 1)

dup_game(g) ==
    [init_game_state(g.w, g.h) EXCEPT
        !.ncells = g.ncells, !.nunvisited = g.nunvisited, !.ends = g.ends,
        !.grid = g.grid, !.opposite_ends = g.opposite_ends,
        !.conn_pairs = g.conn_pairs, !.start_pairs = g.start_pairs]

(***************************************************************************)
(* MoveApplier: follow_path and execute_move.  A traversal that leaves the *)
(* arrays, or that does not come to an end, is undefined behaviour: the    *)
(* operators report it in the field ok.                                    *)
(***************************************************************************)
\* The longest traversal of a path or loop on a w x h board.
max_steps(g) == g.w * g.h + 2

on_board(g, pos) == 0 <= pos /\ pos < g.w * g.h

step(g, pos, i) == pos + knight_moves[i].y * g.w + knight_moves[i].x

\* (conns[0] + conns[1] + grid[pos]) % 2 on the characters of conn_pairs.
angle_parity(g, conn_pairs, pos) ==
    (48 + conn_pairs[2 * pos] + 48 + conn_pairs[2 * pos + 1] + g.grid[pos]) % 2

\* A traversal that takes one step and returns the cell it has reached.
follow_from_one_step(g, start, pos, i, fuel) ==
    [ok |-> on_board(g, step(g, pos, i)),
     pos |-> IF on_board(g, step(g, pos, i)) THEN step(g, pos, i) ELSE start]

\* The do-while loop of follow_path, entered at pos with direction i.
RECURSIVE follow_from(_, _, _, _, _)
follow_from(g, start, pos, i, fuel) ==
    LET next == step(g, pos, i)
    IN  IF fuel = 0 \/ ~on_board(g, next)
        THEN [ok |-> FALSE, pos |-> start]
        ELSE LET c0 == g.conn_pairs[2 * next]
                 c1 == g.conn_pairs[2 * next + 1]
                 j == IF c0 = (i + 4) % 8 THEN c1 ELSE c0
             IN  IF c0 = 8 \/ c1 = 8
                 THEN [ok |-> TRUE, pos |-> next]
                 ELSE IF next = start
                 THEN [ok |-> FALSE, pos |-> start]
                 ELSE follow_from(g, start, next, j, fuel - 1)

follow_path(g, start) ==
    LET c0 == g.conn_pairs[2 * start]
        c1 == g.conn_pairs[2 * start + 1]
    IN  follow_from(g, start, start, IF c0 = 8 THEN c1 ELSE c0, max_steps(g))

\* The marking loop if it left the cells between pos and start as they are.
mark_loop_ends_only(g, opposite_ends, start, new_pos, i, fuel) ==
    [ok |-> TRUE, opposite_ends |-> opposite_ends]

\* The loop that marks a closed loop with -3, from new_pos back to start.
RECURSIVE mark_loop(_, _, _, _, _, _)
mark_loop(g, opposite_ends, start, new_pos, i, fuel) ==
    IF new_pos = start
    THEN [ok |-> TRUE, opposite_ends |-> opposite_ends]
    ELSE LET c0 == g.conn_pairs[2 * new_pos]
             c1 == g.conn_pairs[2 * new_pos + 1]
             out == IF i = c0 THEN c1 ELSE c0
             next == step(g, new_pos, out)
         IN  IF fuel = 0 \/ ~on_board(g, next)
             THEN [ok |-> FALSE, opposite_ends |-> opposite_ends]
             ELSE mark_loop(g, [opposite_ends EXCEPT ![next] = -3], start,
                            next, (out + 4) % 8, fuel - 1)

\* The loop that clears the marks of a loop that has been opened.
RECURSIVE unmark_loop(_, _, _, _, _, _)
unmark_loop(g, opposite_ends, start, new_pos, i, fuel) ==
    IF new_pos = start
    THEN [ok |-> TRUE, opposite_ends |-> opposite_ends]
    ELSE LET c0 == g.conn_pairs[2 * new_pos]
             c1 == g.conn_pairs[2 * new_pos + 1]
             out == IF i = c0 \/ c0 = 8 THEN c1 ELSE c0
             next == step(g, new_pos, out)
         IN  IF fuel = 0 \/ ~on_board(g, next)
             THEN [ok |-> FALSE, opposite_ends |-> opposite_ends]
             ELSE unmark_loop(
                      g,
                      [opposite_ends EXCEPT ![next] =
                          IF angle_parity(g, g.conn_pairs, next) = 0
                          THEN -1 ELSE -2],
                      start, next, (out + 4) % 8, fuel - 1)

\* A connection written into the slots of the destination only.
add_connection_at_end_only(g, i, start, pos) ==
    LET j == (i + 4) % 8
        cp2 == [g.conn_pairs EXCEPT
                   ![2 * pos + (IF g.conn_pairs[2 * pos + 1] = 8 THEN 1 ELSE 0)] = j]
        g2 == [g EXCEPT !.conn_pairs = cp2]
    IN  IF g.opposite_ends[start] = pos
        THEN LET marked == mark_loop(
                     g2, [g.opposite_ends EXCEPT ![start] = -3, ![pos] = -3],
                     start, pos, j, max_steps(g))
             IN  [ok |-> marked.ok,
                  g |-> [g2 EXCEPT !.opposite_ends = marked.opposite_ends]]
        ELSE LET o1 == connect_ends(g.opposite_ends, start, pos)
                 o2 == IF o1[pos] = -1 /\ angle_parity(g, cp2, pos) = 1
                       THEN [o1 EXCEPT ![pos] = -2] ELSE o1
                 o3 == IF o2[start] = -1 /\ angle_parity(g, cp2, start) = 1
                       THEN [o2 EXCEPT ![start] = -2] ELSE o2
             IN  [ok |-> TRUE, g |-> [g2 EXCEPT !.opposite_ends = o3]]

\* A connection written into the slots of start only.
add_connection_at_start_only(g, i, start, pos) ==
    LET j == (i + 4) % 8
        cp1 == [g.conn_pairs EXCEPT
                   ![2 * start + (IF g.conn_pairs[2 * start + 1] = 8 THEN 1 ELSE 0)] = i]
        cp2 == cp1
        g2 == [g EXCEPT !.conn_pairs = cp2]
    IN  IF g.opposite_ends[start] = pos
        THEN LET marked == mark_loop(
                     g2, [g.opposite_ends EXCEPT ![start] = -3, ![pos] = -3],
                     start, pos, j, max_steps(g))
             IN  [ok |-> marked.ok,
                  g |-> [g2 EXCEPT !.opposite_ends = marked.opposite_ends]]
        ELSE LET o1 == connect_ends(g.opposite_ends, start, pos)
                 o2 == IF o1[pos] = -1 /\ angle_parity(g, cp2, pos) = 1
                       THEN [o1 EXCEPT ![pos] = -2] ELSE o1
                 o3 == IF o2[start] = -1 /\ angle_parity(g, cp2, start) = 1
                       THEN [o2 EXCEPT ![start] = -2] ELSE o2
             IN  [ok |-> TRUE, g |-> [g2 EXCEPT !.opposite_ends = o3]]

\* The branch of execute_move for a new connection.
add_connection(g, i, start, pos) ==
    LET j == (i + 4) % 8
        cp1 == [g.conn_pairs EXCEPT
                   ![2 * start + (IF g.conn_pairs[2 * start + 1] = 8 THEN 1 ELSE 0)] = i]
        cp2 == [cp1 EXCEPT
                   ![2 * pos + (IF cp1[2 * pos + 1] = 8 THEN 1 ELSE 0)] = j]
        g2 == [g EXCEPT !.conn_pairs = cp2]
    IN  IF g.opposite_ends[start] = pos
        THEN LET marked == mark_loop(
                     g2, [g.opposite_ends EXCEPT ![start] = -3, ![pos] = -3],
                     start, pos, j, max_steps(g))
             IN  [ok |-> marked.ok,
                  g |-> [g2 EXCEPT !.opposite_ends = marked.opposite_ends]]
        ELSE LET o1 == connect_ends(g.opposite_ends, start, pos)
                 o2 == IF o1[pos] = -1 /\ angle_parity(g, cp2, pos) = 1
                       THEN [o1 EXCEPT ![pos] = -2] ELSE o1
                 o3 == IF o2[start] = -1 /\ angle_parity(g, cp2, start) = 1
                       THEN [o2 EXCEPT ![start] = -2] ELSE o2
             IN  [ok |-> TRUE, g |-> [g2 EXCEPT !.opposite_ends = o3]]

\* One side of a removed connection that did not belong to a loop.
reopen_end(g, opposite_ends, cell) ==
    IF opposite_ends[cell] < 0
    THEN LET end == follow_path(g, cell)
             o1 == [opposite_ends EXCEPT ![cell] = end.pos]
         IN  [ok |-> end.ok, opposite_ends |-> [o1 EXCEPT ![end.pos] = cell]]
    ELSE [ok |-> TRUE, opposite_ends |-> [opposite_ends EXCEPT ![cell] = cell]]

\* The branch of execute_move for a backtrack.
remove_connection(g, i, start, pos) ==
    LET j == (i + 4) % 8
        cp1 == [g.conn_pairs EXCEPT
                   ![2 * start + (IF i = g.conn_pairs[2 * start + 1] THEN 1 ELSE 0)] = 8]
        cp2 == [cp1 EXCEPT
                   ![2 * pos + (IF j = cp1[2 * pos + 1] THEN 1 ELSE 0)] = 8]
        g2 == [g EXCEPT !.conn_pairs = cp2]
    IN  IF g.opposite_ends[start] = -3
        THEN LET cleared == unmark_loop(g2, g.opposite_ends, start, pos, j,
                                        max_steps(g))
             IN  [ok |-> cleared.ok,
                  g |-> [g2 EXCEPT !.opposite_ends =
                            [cleared.opposite_ends EXCEPT ![start] = pos,
                                                          ![pos] = start]]]
        ELSE LET r1 == reopen_end(g2, g.opposite_ends, start)
                 r2 == reopen_end(g2, r1.opposite_ends, pos)
             IN  [ok |-> r1.ok /\ r2.ok,
                  g |-> [g2 EXCEPT !.opposite_ends = r2.opposite_ends]]

\* The test that rejects a move: a bad direction, cell or destination.
rejected(g, m) ==
    \/ m.i < 0 \/ m.i > 7
    \/ m.pos < 0 \/ m.pos >= g.w * g.h
    \/ attempt_move(m.pos, knight_moves[m.i], g.w, g.h) = -1

\* The body of the loop without the test for permanent connections.
apply_move_to_permanent(g, m) ==
    LET i == m.i
        start == m.pos
        pos == attempt_move(start, knight_moves[i], g.w, g.h)
        j == (i + 4) % 8
    IN  IF \/ (i \notin {g.conn_pairs[2 * start], g.conn_pairs[2 * start + 1]}
                /\ g.opposite_ends[start] < 0)
           \/ (j \notin {g.conn_pairs[2 * pos], g.conn_pairs[2 * pos + 1]}
                /\ g.opposite_ends[pos] < 0)
        THEN [ok |-> TRUE, g |-> g]
        ELSE IF i \notin {g.conn_pairs[2 * start], g.conn_pairs[2 * start + 1]}
        THEN add_connection(g, i, start, pos)
        ELSE remove_connection(g, i, start, pos)

\* The body of the loop of execute_move for one move that is not rejected.
apply_move(g, m) ==
    LET i == m.i
        start == m.pos
        pos == attempt_move(start, knight_moves[i], g.w, g.h)
        j == (i + 4) % 8
        s0 == g.conn_pairs[2 * start]
        s1 == g.conn_pairs[2 * start + 1]
        c0 == g.conn_pairs[2 * pos]
        c1 == g.conn_pairs[2 * pos + 1]
    IN  IF \/ (i # s0 /\ i # s1 /\ g.opposite_ends[start] < 0)
           \/ (j # c0 /\ j # c1 /\ g.opposite_ends[pos] < 0)
        THEN [ok |-> TRUE, g |-> g]
        ELSE IF \/ (i = s0 /\ g.start_pairs[2 * start])
                \/ (i = s1 /\ g.start_pairs[2 * start + 1])
        THEN [ok |-> TRUE, g |-> g]
        ELSE IF i # s0 /\ i # s1
        THEN add_connection(g, i, start, pos)
        ELSE remove_connection(g, i, start, pos)

\* The loop of execute_move if a rejected move were skipped like an ignored one.
RECURSIVE run_moves_skipping_rejected(_, _, _)
run_moves_skipping_rejected(g, moves, k) ==
    IF k > Len(moves)
    THEN [returned |-> "state", ok |-> TRUE, g |-> g]
    ELSE IF rejected(g, moves[k])
    THEN run_moves_skipping_rejected(g, moves, k + 1)
    ELSE run_moves_skipping_rejected(apply_move(g, moves[k]).g, moves, k + 1)

\* A loop that applies the last move of the string only.
run_moves_last_move_only(g, moves, k) ==
    IF \E n \in 1..Len(moves) : rejected(g, moves[n])
    THEN [returned |-> "NULL", ok |-> TRUE, g |-> g]
    ELSE LET r == apply_move(g, moves[Len(moves)])
             pos == attempt_move(moves[Len(moves)].pos,
                                 knight_moves[moves[Len(moves)].i], g.w, g.h)
         IN  [returned |-> "state", ok |-> r.ok,
              g |-> [r.g EXCEPT !.cx = pos % g.w, !.cy = pos \div g.w]]

\* The loop of execute_move over the moves of the string, from move k on.
RECURSIVE run_moves(_, _, _)
run_moves(g, moves, k) ==
    IF k > Len(moves)
    THEN LET pos == attempt_move(moves[Len(moves)].pos,
                                 knight_moves[moves[Len(moves)].i], g.w, g.h)
         IN  [returned |-> "state", ok |-> TRUE,
              g |-> [g EXCEPT !.cx = pos % g.w, !.cy = pos \div g.w]]
    ELSE IF rejected(g, moves[k])
    THEN [returned |-> "NULL", ok |-> TRUE, g |-> g]
    ELSE LET r == apply_move(g, moves[k])
         IN  IF r.ok
             THEN run_moves(r.g, moves, k + 1)
             ELSE [returned |-> "undefined", ok |-> FALSE, g |-> r.g]

\* execute_move(state, move): the moves of the string are applied to a copy.
execute_move(g, moves) == run_moves(dup_game(g), moves, 1)

(***************************************************************************)
(* UniquenessPruner: unique_solution                                       *)
(*                                                                         *)
(* A context c is the record of struct unique_solution_ctx (neighbors is   *)
(* the same precomputed table in every context) together with the position *)
(* of its invocation: at, pos, index, and status, which is "ok" until the  *)
(* loop body leaves by goto (a contradiction), fails an assertion or       *)
(* indexes outside an array.                                               *)
(***************************************************************************)
neighbors ==
    [k \in 0..(8 * W * H - 1) |-> attempt_move(k \div 8, knight_moves[k % 8], W, H)]

set_bools(arr, neigh, pos, direction, value) ==
    [arr EXCEPT ![8 * pos + direction] = value,
                ![8 * neigh[8 * pos + direction] + ((direction + 4) % 8)] = value]

\* A removal that leaves the candidates as they are.
ctx_disable_nothing(c, pos, i) == c

\* A removal that clears the candidate on the side of pos only.
ctx_disable_one_side(c, pos, i) ==
    [c EXCEPT !.can_connect[8 * pos + i] = FALSE]

\* set_bools(ctx->can_connect, ctx->neighbors, pos, i, false)
ctx_disable(c, pos, i) ==
    [c EXCEPT !.can_connect = set_bools(@, neighbors, pos, i, FALSE)]

\* A joining of the ends that leaves the connected flags as they are.
ctx_connect_ends_only(c, pos, i) ==
    IF connect_ends_in_bounds(c.opposite_ends, pos, neighbors[8 * pos + i])
    THEN [c EXCEPT !.opposite_ends = connect_ends(@, pos, neighbors[8 * pos + i])]
    ELSE [c EXCEPT !.status = "bounds"]

\* set_bools(ctx->connected, ctx->neighbors, pos, i, true);
\* connect_ends(ctx->opposite_ends, pos, neigh[i])
ctx_connect(c, pos, i) ==
    IF connect_ends_in_bounds(c.opposite_ends, pos, neighbors[8 * pos + i])
    THEN [c EXCEPT !.connected = set_bools(@, neighbors, pos, i, TRUE),
                   !.opposite_ends = connect_ends(@, pos, neighbors[8 * pos + i])]
    ELSE [c EXCEPT !.status = "bounds"]

ctx_todo(c, k) == [c EXCEPT !.todo = stdq_add(@, k)]

\* if (ctx->opposite_ends[k] < w * h) stdq_add(ctx->todo, ctx->opposite_ends[k])
ctx_todo_end(c, k) ==
    IF c.opposite_ends[k] < W * H THEN ctx_todo(c, c.opposite_ends[k]) ELSE c

\* The context the outermost invocation builds (ctx == NULL).
initial_ctx(g) ==
    LET w == g.w
        h == g.h
        oe0 == [i \in 0..(w * h + 1) |->
                   IF i < w * h THEN (IF g.grid[i] # 0 THEN i ELSE -1) ELSE i]
        oe1 == connect_ends(oe0, g.ends[0], w * h)
        oe2 == connect_ends(oe1, g.ends[1], w * h + 1)
    IN  [ opposite_ends |-> oe2,
          can_connect |-> [k \in 0..(8 * w * h - 1) |->
                              neighbors[k] > -1 /\ g.grid[k \div 8] > 0],
          connected |-> [k \in 0..(8 * w * h - 1) |-> FALSE],
          permanent_conns |-> <<>>,
          ref_count |-> 0,
          todo |-> tdq_fill(w * h),
          at |-> "loop", pos |-> -1, index |-> 0, status |-> "ok" ]

\* Candidates whose destination is complete or is the other end of pos's chain.
RECURSIVE prune_closed(_, _, _)
prune_closed(c, pos, i) ==
    IF i = 8
    THEN c
    ELSE IF /\ c.can_connect[8 * pos + i]
            /\ ~c.connected[8 * pos + i]
            /\ \/ c.opposite_ends[neighbors[8 * pos + i]] = pos
               \/ c.opposite_ends[neighbors[8 * pos + i]] = -1
         THEN prune_closed(ctx_todo(ctx_disable(c, pos, i), neighbors[8 * pos + i]),
                           pos, i + 1)
         ELSE prune_closed(c, pos, i + 1)

\* even (parity 0) and odd (parity 1): ccon[p] + ccon[p+2] + ccon[p+4] + ccon[p+6]
ccon_count(c, pos, p) ==
    Cardinality({i \in {p, p + 2, p + 4, p + 6} : c.can_connect[8 * pos + i]})

\* The test without the case of one candidate of each parity.
contradiction_without_single_pair(kind, even, odd) ==
    \/ even + odd + (IF kind = 1 THEN 1 ELSE 0) < 2
    \/ (kind = 3 /\ (even = 0 \/ odd = 0))

\* The same test with the Orthogonal and Diagonal conditions exchanged.
contradiction_kinds_exchanged(kind, even, odd) ==
    \/ even + odd + (IF kind = 1 THEN 1 ELSE 0) < 2
    \/ (kind = 3 /\ even = 1 /\ odd = 1)
    \/ (kind = 2 /\ (even = 0 \/ odd = 0))

\* A cell is contradictory when too few candidates remain for its kind.
contradiction(kind, even, odd) ==
    \/ even + odd + (IF kind = 1 THEN 1 ELSE 0) < 2
    \/ (kind = 2 /\ even = 1 /\ odd = 1)
    \/ (kind = 3 /\ (even = 0 \/ odd = 0))

\* An Endpoint with one candidate left: connect the first candidate, break.
RECURSIVE force_endpoint(_, _, _)
force_endpoint(c, pos, i) ==
    IF i = 8
    THEN c
    ELSE IF c.can_connect[8 * pos + i]
         THEN ctx_connect(c, pos, i)
         ELSE force_endpoint(c, pos, i + 1)

\* An OrthogonalTurn with min < 2 && max == 2; even_is_min is (even == min).
RECURSIVE force_orthogonal(_, _, _, _)
force_orthogonal(c, pos, i, even_is_min) ==
    IF i = 8 \/ c.status # "ok"
    THEN c
    ELSE IF ~c.can_connect[8 * pos + i]
         THEN force_orthogonal(c, pos, i + 1, even_is_min)
         ELSE IF i % 2 = even_is_min
              THEN force_orthogonal(
                       ctx_todo(ctx_connect(ctx_todo_end(c, neighbors[8 * pos + i]),
                                            pos, i),
                                neighbors[8 * pos + i]),
                       pos, i + 1, even_is_min)
              ELSE force_orthogonal(
                       ctx_todo(ctx_disable(c, pos, i), neighbors[8 * pos + i]),
                       pos, i + 1, even_is_min)

\* An OrthogonalTurn with min == 1: drop the first candidate of i, i+2, ...
RECURSIVE drop_single(_, _, _)
drop_single(c, pos, i) ==
    IF i >= 8
    THEN c
    ELSE IF c.can_connect[8 * pos + i]
         THEN ctx_todo(ctx_disable(c, pos, i), neighbors[8 * pos + i])
         ELSE drop_single(c, pos, i + 2)

\* A DiagonalTurn: the inner loop for (i = j; i < 8; i += 2).
RECURSIVE force_diagonal(_, _, _)
force_diagonal(c, pos, i) ==
    IF i >= 8 \/ c.status # "ok"
    THEN c
    ELSE LET c1 == ctx_todo(c, neighbors[8 * pos + i])
         IN  IF ~c1.can_connect[8 * pos + i]
             THEN force_diagonal(c1, pos, i + 2)
             ELSE force_diagonal(
                      ctx_connect(ctx_todo_end(c1, neighbors[8 * pos + i]), pos, i),
                      pos, i + 2)

\* The outer loop for (j = 0; j < 2; j++) over even_odd = {even, odd}.
diagonal_turn(c, pos, even, odd) ==
    LET c0 == IF even = 1 THEN force_diagonal(ctx_todo(c, pos), pos, 0) ELSE c
    IN  IF odd = 1 /\ c0.status = "ok"
        THEN force_diagonal(ctx_todo(c0, pos), pos, 1)
        ELSE c0

\* The first connected direction of pos, 8 when there is none.
which_connected(c, pos) ==
    IF \E i \in 0..7 : c.connected[8 * pos + i]
    THEN CHOOSE i \in 0..7 :
             /\ c.connected[8 * pos + i]
             /\ \A j \in 0..(i - 1) : ~c.connected[8 * pos + j]
    ELSE 8

\* A cell that is the end of a chain: the loop over its other candidates.
RECURSIVE extend_chain(_, _, _, _, _, _)
extend_chain(c, kind, pos, i, which, total) ==
    IF i = 8 \/ c.status # "ok"
    THEN c
    ELSE IF ~c.can_connect[8 * pos + i] \/ i = which
         THEN extend_chain(c, kind, pos, i + 1, which, total)
         ELSE LET n == neighbors[8 * pos + i]
              IN  IF \/ (which + kind + i) % 2 = 1
                     \/ (c.opposite_ends[pos] = n /\ total > 2)
                     \/ c.opposite_ends[n] = -1
                  THEN LET c1 == ctx_todo(ctx_disable(c, pos, i), n)
                           c2 == IF c1.opposite_ends[pos] = n
                                 THEN ctx_todo(c1, pos)
                                 ELSE c1
                       IN  extend_chain(c2, kind, pos, i + 1, which, total)
                  ELSE IF c.opposite_ends[pos] = n
                       THEN [c EXCEPT !.status =
                                IF total = 2 THEN "contradiction" ELSE "assert"]
                       ELSE IF total = 2
                            THEN LET c1 == ctx_todo_end(c, pos)
                                     c2 == ctx_todo_end(c1, n)
                                     c3 == ctx_todo(c2, n)
                                 IN  extend_chain(ctx_connect(c3, pos, i),
                                                  kind, pos, i + 1, which, total)
                            ELSE extend_chain(c, kind, pos, i + 1, which, total)

chain_end(c, kind, pos, total) ==
    LET which == which_connected(c, pos)
    IN  IF which < 8
        THEN extend_chain(c, kind, pos, 0, which, total)
        ELSE [c EXCEPT !.status = "assert"]

\* A cell in the middle of a path: drop every candidate that is not connected.
RECURSIVE drop_unconnected(_, _, _)
drop_unconnected(c, pos, i) ==
    IF i = 8
    THEN c
    ELSE IF c.can_connect[8 * pos + i] /\ ~c.connected[8 * pos + i]
         THEN drop_unconnected(
                  ctx_todo(ctx_disable(c, pos, i), neighbors[8 * pos + i]), pos, i + 1)
         ELSE drop_unconnected(c, pos, i + 1)

\* The deductions of one loop iteration for a cell of kind 1, 2 or 3.
deduce(c, kind, pos, even, odd) ==
    LET min == IF even < odd THEN even ELSE odd
        max == IF even > odd THEN even ELSE odd
    IN  IF c.opposite_ends[pos] > -1 /\ kind = 1
        THEN IF even + odd = 1 THEN force_endpoint(c, pos, 0) ELSE c
        ELSE IF c.opposite_ends[pos] = pos /\ kind = 2
        THEN IF min < 2 /\ max = 2
             THEN force_orthogonal(c, pos, 0, IF even = min THEN 1 ELSE 0)
             ELSE IF min = 1
                  THEN drop_single(c, pos, IF min = odd THEN 1 ELSE 0)
                  ELSE c
        ELSE IF c.opposite_ends[pos] = pos /\ kind = 3
        THEN diagonal_turn(c, pos, even, odd)
        ELSE IF c.opposite_ends[pos] # pos /\ c.opposite_ends[pos] > -1
        THEN chain_end(c, kind, pos, even + odd)
        ELSE c

\* The body of the while loop for the cell pos taken from the queue.
loop_body(grid, c, pos) ==
    IF grid[pos] = 0
    THEN c
    ELSE LET c1 == prune_closed(c, pos, 0)
             even == ccon_count(c1, pos, 0)
             odd == ccon_count(c1, pos, 1)
         IN  IF contradiction(grid[pos], even, odd)
             THEN [c1 EXCEPT !.status = "contradiction"]
             ELSE LET c2 == deduce(c1, grid[pos], pos, even, odd)
                  IN  IF c2.status = "ok" /\ c2.opposite_ends[pos] = -1
                      THEN drop_unconnected(c2, pos, 0)
                      ELSE c2

VARIABLES
    pc,        \* position in new_game_desc
    rs,        \* the random source
    gs,        \* the game_state being generated
    walk,      \* locals of the walk of new_game_desc
    stack,     \* the unique_solution_ctx of each active invocation
    final_answer, \* what the outermost unique_solution returned
    ub,        \* an access outside an array has happened
    ham,       \* the hamilton_private handed to hamilton_run
    run,       \* locals of hamilton_run
    desc,      \* the game description, a string of characters
    state,     \* the game_state the player is playing on
    call       \* what the last call under check was given and returned

vars == <<pc, rs, gs, walk, stack, final_answer, ub, ham, run, desc, state, call>>

play_vars == <<desc, state, call>>

tour_vars == <<rs, gs, walk, stack, final_answer, ub>>

hamilton_vars == <<ham, run>>

\* No Hamilton solver is in use while a puzzle is generated.
NoHamilton == [nvertices |-> 0]
NoRun == [iter_limit |-> 0]

\* No description has been written and no game is being played.
NoDesc == <<>>
NoCall == [returned |-> "none", nmoves |-> 0, ncalls |-> 0]

(***************************************************************************)
(* TourBuilder: the walk of new_game_desc                                  *)
(***************************************************************************)
NoWalk ==
    [ pos |-> -1, move_i |-> -1, prev_move_i |-> -1, cells_left |-> 0,
      moves_i |-> [i \in 0..7 |-> i], moves |-> <<>> ]

\* scan_moves without the test that the neighbour is not yet visited.
RECURSIVE scan_moves_revisit(_, _, _, _, _)
scan_moves_revisit(grid, pos, moves_i, i, acc) ==
    IF i = 8
    THEN acc
    ELSE LET neighbor == attempt_move(pos, knight_moves[moves_i[i]], W, H)
         IN  IF neighbor >= 0 /\ 0 < acc.min_neigh
             THEN scan_moves_revisit(grid, pos, moves_i, i + 1,
                                     [min_neigh |-> 0, next_pos |-> neighbor,
                                      move_i |-> moves_i[i]])
             ELSE scan_moves_revisit(grid, pos, moves_i, i + 1, acc)

\* The for loop over the shuffled moves: acc holds min_neigh, next_pos, move_i.
RECURSIVE scan_moves(_, _, _, _, _)
scan_moves(grid, pos, moves_i, i, acc) ==
    IF i = 8
    THEN acc
    ELSE LET neighbor == attempt_move(pos, knight_moves[moves_i[i]], W, H)
         IN  IF neighbor >= 0 /\ grid[neighbor] = 0
             THEN LET num == num_neighbors(grid, neighbor, W, H)
                  IN  IF num < acc.min_neigh
                      THEN scan_moves(grid, pos, moves_i, i + 1,
                                      [min_neigh |-> num, next_pos |-> neighbor,
                                       move_i |-> moves_i[i]])
                      ELSE scan_moves(grid, pos, moves_i, i + 1, acc)
             ELSE scan_moves(grid, pos, moves_i, i + 1, acc)

\* gs->grid[pos] = (prev_move_i + move_i) % 2 + 2
turn_kind_swapped(prev_move_i, move_i) == 3 - ((prev_move_i + move_i) % 2)
turn_kind(prev_move_i, move_i) == ((prev_move_i + move_i) % 2) + 2

\* generate_grid: a fresh state, the number of unvisited cells and the start.
GenerateGrid ==
    /\ pc = "generate_grid"
    /\ LET g0 == init_game_state(W, H)
           nunvisited == random_upto(rs, MAX_UNVISITED)
           rs1 == random_next(rs)
           end0 == random_upto(rs1, W * H)
           rs2 == random_next(rs1)
           ncells == W * H - nunvisited
       IN  /\ gs' = [g0 EXCEPT !.nunvisited = nunvisited,
                               !.ends = [@ EXCEPT ![0] = end0],
                               !.ncells = ncells,
                               !.grid = [@ EXCEPT ![end0] = 1]]
           /\ walk' = [ pos |-> end0, move_i |-> -1, prev_move_i |-> -1,
                        cells_left |-> ncells - 1,
                        moves_i |-> [i \in 0..7 |-> i],
                        moves |-> [i \in 0..(ncells - 2) |-> -1] ]
           /\ rs' = rs2
    /\ pc' = "walk"
    /\ UNCHANGED <<stack, final_answer, ub>>
    /\ UNCHANGED hamilton_vars
    /\ UNCHANGED play_vars

\* One iteration of the walk loop, up to the choice of next_pos.
WalkShuffled == shuffle(walk.moves_i, 8, rs)
WalkChoice ==
    scan_moves(gs.grid, walk.pos, WalkShuffled.array, 0,
               [min_neigh |-> 8, next_pos |-> -1, move_i |-> walk.move_i])

\* next_pos == -1: the attempt is discarded and generation restarts.
WalkDeadEnd ==
    /\ pc = "walk"
    /\ walk.cells_left > 0
    /\ WalkChoice.next_pos = -1
    /\ rs' = WalkShuffled.rs
    /\ pc' = "generate_grid"
    /\ UNCHANGED <<gs, walk, stack, final_answer, ub>>
    /\ UNCHANGED hamilton_vars
    /\ UNCHANGED play_vars

WalkAdvance ==
    /\ pc = "walk"
    /\ walk.cells_left > 0
    /\ WalkChoice.next_pos # -1
    /\ LET prev_move_i == walk.move_i
           move_i == WalkChoice.move_i
           next_pos == WalkChoice.next_pos
           g1 == IF prev_move_i # -1
                 THEN [gs.grid EXCEPT ![walk.pos] = turn_kind(prev_move_i, move_i)]
                 ELSE gs.grid
       IN  /\ gs' = [gs EXCEPT !.grid = [g1 EXCEPT ![next_pos] = 1]]
           /\ walk' = [walk EXCEPT
                         !.pos = next_pos,
                         !.move_i = move_i,
                         !.prev_move_i = prev_move_i,
                         !.moves_i = WalkShuffled.array,
                         !.moves = [@ EXCEPT ![gs.ncells - walk.cells_left - 1] = move_i],
                         !.cells_left = @ - 1]
    /\ rs' = WalkShuffled.rs
    /\ pc' = "walk"
    /\ UNCHANGED <<stack, final_answer, ub>>
    /\ UNCHANGED hamilton_vars
    /\ UNCHANGED play_vars

(***************************************************************************)
(* unique_solution as steps: the top of stack is the running invocation.   *)
(***************************************************************************)
Top == stack[Len(stack)]

SetTop(c) == [stack EXCEPT ![Len(stack)] = c]

\* The walk is complete: gs->ends[1] = pos; unique_solution(gs, true, rs, NULL).
CallUniqueSolution ==
    /\ pc = "walk"
    /\ walk.cells_left = 0
    /\ LET g == [gs EXCEPT !.ends = [@ EXCEPT ![1] = walk.pos]]
       IN  /\ gs' = g
           /\ stack' = <<initial_ctx(g)>>
    /\ pc' = "unique_solution"
    /\ UNCHANGED <<rs, walk, final_answer, ub>>
    /\ UNCHANGED hamilton_vars
    /\ UNCHANGED play_vars

\* One iteration of the while loop: pos = tdq_remove(ctx->todo) and the body.
Propagate ==
    /\ pc = "unique_solution"
    /\ Top.at = "loop"
    /\ tdq_remove(Top.todo) > -1
    /\ LET pos == tdq_remove(Top.todo)
           c == loop_body(gs.grid, [Top EXCEPT !.todo = tdq_removed(@)], pos)
       IN  /\ stack' = SetTop(IF c.status = "contradiction"
                              THEN [c EXCEPT !.at = "return_false"]
                              ELSE c)
           /\ pc' = IF c.status \in {"assert", "bounds"} THEN "aborted" ELSE pc
           /\ ub' = (ub \/ c.status = "bounds")
    /\ UNCHANGED <<rs, gs, walk, final_answer>>
    /\ UNCHANGED hamilton_vars
    /\ UNCHANGED play_vars

\* A scan that looks at the cell after start only.
scan_from_next_cell_only(opposite_ends, start, w, h) ==
    IF opposite_ends[(start + 1) % (w * h)] # -1
    THEN (start + 1) % (w * h)
    ELSE start

\* The cells the scan loop compares with -1 when it runs to its end:
\* pos = (start + 1) % (w * h); pos != start; pos = (pos + 1) % (w * h).
scanned_cells(start, w, h) == {(start + k) % (w * h) : k \in 1..(w * h - 1)}

\* The scan after the loop: the first cell after start, cyclically, whose
\* opposite_ends is not -1; start itself when there is none.
scan_from(opposite_ends, start, w, h) ==
    LET n == w * h
        open == {k \in 1..(n - 1) : opposite_ends[(start + k) % n] # -1}
    IN  IF open = {}
        THEN start
        ELSE (start + (CHOOSE k \in open : \A j \in open : k <= j)) % n

\* Writing the permanent connections into gs (guaranteed is true).
RECURSIVE write_permanent(_, _, _, _)
write_permanent(g, bad, c, i) ==
    IF i = c.ref_count
    THEN [gs |-> g, ub |-> bad]
    ELSE LET perm == c.permanent_conns[i]
             start == perm \div 8
             move == perm % 8
             index == 2 * start + (IF g.conn_pairs[2 * start] # 8 THEN 1 ELSE 0)
             cp1 == [g.conn_pairs EXCEPT ![index] = move]
             pos == start + knight_moves[move].y * g.w + knight_moves[move].x
             move2 == (move + 4) % 8
             index2 == 2 * pos + (IF cp1[2 * pos] # 8 THEN 1 ELSE 0)
             cp2 == [cp1 EXCEPT ![index2] = move2]
             inb == connect_ends_in_bounds(g.opposite_ends, start, pos)
         IN  write_permanent(
                 [g EXCEPT !.conn_pairs = cp2,
                           !.opposite_ends =
                               IF inb THEN connect_ends(@, start, pos) ELSE @],
                 bad \/ ~inb, c, i + 1)

ScanStart == random_upto(rs, W * H)
ScanPos == scan_from(Top.opposite_ends, ScanStart, W, H)

\* pos == start: every scanned cell is part of the tour.
ScanSolved ==
    /\ pc = "unique_solution"
    /\ Top.at = "loop"
    /\ tdq_remove(Top.todo) = -1
    /\ ScanPos = ScanStart
    /\ LET r == write_permanent(gs, ub, Top, 0)
       IN  /\ gs' = r.gs
           /\ ub' = r.ub
    /\ stack' = SetTop([Top EXCEPT !.at = "solved", !.pos = ScanPos])
    /\ rs' = random_next(rs)
    /\ UNCHANGED <<pc, walk, final_answer>>
    /\ UNCHANGED hamilton_vars
    /\ UNCHANGED play_vars

\* Some cell is not yet part of the tour: assumptions are tried at pos.
ScanOpen ==
    /\ pc = "unique_solution"
    /\ Top.at = "loop"
    /\ tdq_remove(Top.todo) = -1
    /\ ScanPos # ScanStart
    /\ stack' = SetTop([Top EXCEPT !.at = "assume", !.pos = ScanPos, !.index = 0])
    /\ rs' = random_next(rs)
    /\ UNCHANGED <<pc, gs, walk, final_answer, ub>>
    /\ UNCHANGED hamilton_vars
    /\ UNCHANGED play_vars

\* The directions the for loop over index does not skip.
assumable(c, index) ==
    /\ c.can_connect[8 * c.pos + index]
    /\ ~c.connected[8 * c.pos + index]
    /\ c.opposite_ends[neighbors[8 * c.pos + index]] # -1

\* for (i = 0; i < 8; i++) { stdq_add(todo, neigh[i]); stdq_add(todo, neigh_neigh[i]); }
RECURSIVE todo_around(_, _, _, _)
todo_around(tdq, pos, npos, i) ==
    IF i = 8
    THEN tdq
    ELSE todo_around(stdq_add(stdq_add(tdq, neighbors[8 * pos + i]),
                              neighbors[8 * npos + i]),
                     pos, npos, i + 1)

\* The duplicate of ctx with the connection (pos, index) assumed.
new_ctx(c, pos, index) ==
    LET n == neighbors[8 * pos + index]
        base == [c EXCEPT !.ref_count = c.ref_count + 1,
                          !.permanent_conns =
                              [i \in 0..c.ref_count |->
                                  IF i < c.ref_count THEN c.permanent_conns[i]
                                  ELSE 8 * pos + index],
                          !.todo = todo_around(tdq_new(W * H), pos, n, 0),
                          !.at = "loop", !.pos = -1, !.index = 0]
    IN  ctx_connect(base, pos, index)

\* The next assumable direction: the recursive call on the duplicated context.
AssumeNext ==
    /\ pc = "unique_solution"
    /\ Top.at = "assume"
    /\ \E index \in Top.index..7 :
          /\ assumable(Top, index)
          /\ \A j \in Top.index..(index - 1) : ~assumable(Top, j)
          /\ LET nc == new_ctx(Top, Top.pos, index)
             IN  /\ stack' = Append(SetTop([Top EXCEPT !.index = index]), nc)
                 /\ pc' = IF nc.status = "bounds" THEN "aborted" ELSE pc
                 /\ ub' = (ub \/ nc.status = "bounds")
    /\ UNCHANGED <<rs, gs, walk, final_answer>>
    /\ UNCHANGED hamilton_vars
    /\ UNCHANGED play_vars

\* No direction is left: the invocation returns its final_answer, false.
AssumeExhausted ==
    /\ pc = "unique_solution"
    /\ Top.at = "assume"
    /\ \A j \in Top.index..7 : ~assumable(Top, j)
    /\ stack' = SetTop([Top EXCEPT !.at = "return_false", !.index = 8])
    /\ UNCHANGED <<pc, rs, gs, walk, final_answer, ub>>
    /\ UNCHANGED hamilton_vars
    /\ UNCHANGED play_vars

\* A return in which the caller's arrays are the ones the callee worked on,
\* as they would be if the context were shared and not duplicated.
ReturnFalse_shared_arrays ==
    /\ pc = "unique_solution"
    /\ Top.at = "return_false"
    /\ IF Len(stack) = 1
       THEN /\ stack' = <<>>
            /\ final_answer' = FALSE
            /\ pc' = "encode"
       ELSE /\ stack' = [SubSeq(stack, 1, Len(stack) - 1)
                            EXCEPT ![Len(stack) - 1] =
                                [@ EXCEPT !.index = @ + 1,
                                          !.can_connect = Top.can_connect,
                                          !.connected = Top.connected,
                                          !.opposite_ends = Top.opposite_ends]]
            /\ UNCHANGED <<final_answer, pc>>
    /\ UNCHANGED <<rs, gs, walk, ub>>
    /\ UNCHANGED hamilton_vars
    /\ UNCHANGED play_vars

\* cleanup_and_return with final_answer false: the caller tries its next index.
ReturnFalse ==
    /\ pc = "unique_solution"
    /\ Top.at = "return_false"
    /\ IF Len(stack) = 1
       THEN /\ stack' = <<>>
            /\ final_answer' = FALSE
            /\ pc' = "encode"
       ELSE /\ stack' = [SubSeq(stack, 1, Len(stack) - 1)
                            EXCEPT ![Len(stack) - 1] = [@ EXCEPT !.index = @ + 1]]
            /\ UNCHANGED <<final_answer, pc>>
    /\ UNCHANGED <<rs, gs, walk, ub>>
    /\ UNCHANGED hamilton_vars
    /\ UNCHANGED play_vars

\* cleanup_and_return with final_answer true: the caller breaks and returns true.
ReturnTrue ==
    /\ pc = "unique_solution"
    /\ Top.at \in {"solved", "return_true"}
    /\ IF Len(stack) = 1
       THEN /\ stack' = <<>>
            /\ final_answer' = TRUE
            /\ pc' = "encode"
       ELSE /\ stack' = [SubSeq(stack, 1, Len(stack) - 1)
                            EXCEPT ![Len(stack) - 1] = [@ EXCEPT !.at = "return_true"]]
            /\ UNCHANGED <<final_answer, pc>>
    /\ UNCHANGED <<rs, gs, walk, ub>>
    /\ UNCHANGED hamilton_vars
    /\ UNCHANGED play_vars

\* The end of new_game_desc: the state is written out as a string.
Encode ==
    /\ pc = "encode"
    /\ desc' = encode_desc(gs)
    /\ pc' = "new_game"
    /\ UNCHANGED <<state, call>>
    /\ UNCHANGED tour_vars
    /\ UNCHANGED hamilton_vars

\* new_game on the description, with the parameters it was generated for.
NewGame ==
    /\ pc = "new_game"
    /\ state' = new_game(W, H, desc)
    /\ pc' = "play"
    /\ UNCHANGED <<desc, call>>
    /\ UNCHANGED tour_vars
    /\ UNCHANGED hamilton_vars

Init ==
    /\ pc = "generate_grid"
    /\ rs \in {SeedList[i] : i \in 1..NumSeeds}
    /\ gs = init_game_state(W, H)
    /\ walk = NoWalk
    /\ stack = <<>>
    /\ final_answer = FALSE
    /\ ub = FALSE
    /\ ham = NoHamilton
    /\ run = NoRun
    /\ desc = NoDesc
    /\ state = init_game_state(W, H)
    /\ call = NoCall

Next ==
    \/ GenerateGrid
    \/ WalkDeadEnd
    \/ WalkAdvance
    \/ CallUniqueSolution
    \/ Propagate
    \/ ScanSolved
    \/ ScanOpen
    \/ AssumeNext
    \/ AssumeExhausted
    \/ ReturnFalse
    \/ ReturnTrue
    \/ Encode
    \/ NewGame

Spec == Init /\ [][Next]_vars

(***************************************************************************)
(* HamiltonSolver: hamilton.c                                              *)
(***************************************************************************)
ON_THRESHOLD == 12
OFF_THRESHOLD == 0

\* Attempts start only below these: nok and iter_limit grow without bound.
MaxOk == 2
MaxIterLimit == 225

\* level and active are not initialised until hamilton_try_converge;
\* vedges and output_vertices hold 0 and -1 where nothing was written yet.
hamilton_cycle_new(nvertices, start_vertex) ==
    [ nvertices |-> nvertices,
      start_vertex |-> start_vertex,
      nedges |-> 0,
      edges |-> <<>>,
      ready |-> FALSE,
      is_path |-> FALSE,
      vdegree |-> [v \in 0..(nvertices - 1) |-> 0],
      vedges |-> [v \in 0..(nvertices - 1) |-> <<0, 0>>],
      output_vertices |-> [v \in 0..(nvertices - 1) |-> -1] ]

hamilton_add_edge(hp, v1, v2) ==
    [hp EXCEPT !.edges = Append(@, [level |-> 0, active |-> FALSE,
                                    neighbours |-> <<>>, ends |-> <<v1, v2>>]),
               !.nedges = @ + 1]

\* hamilton_add_edge for each pair of a list, in order.
RECURSIVE add_edges(_, _)
add_edges(hp, pairs) ==
    IF pairs = <<>>
    THEN hp
    ELSE add_edges(hamilton_add_edge(hp, Head(pairs)[1], Head(pairs)[2]), Tail(pairs))

hamilton_path_new(nvertices) ==
    LET public == hamilton_cycle_new(nvertices + 1, nvertices)
        added == add_edges(public, [i \in 1..nvertices |-> <<i - 1, nvertices>>])
    IN  [added EXCEPT !.is_path = TRUE]

\* edgelists[v]: the edges at v, in the order of the edge array and its ends.
edgelist(hp, v) ==
    LET slots == SelectSeq([k \in 1..(2 * hp.nedges) |-> k],
                           LAMBDA k : hp.edges[(k + 1) \div 2].ends[((k + 1) % 2) + 1] = v)
    IN  [j \in 1..Len(slots) |-> (slots[j] + 1) \div 2]

\* The pairs (j, k), j < k, of one edge list: ej gets ek, then ek gets ej.
RECURSIVE neighbour_pairs(_, _, _)
neighbour_pairs(list, j, k) ==
    IF j >= Len(list)
    THEN <<>>
    ELSE IF k > Len(list)
    THEN neighbour_pairs(list, j + 1, j + 2)
    ELSE << <<list[j], list[k]>>, <<list[k], list[j]>> >>
         \o neighbour_pairs(list, j, k + 1)

RECURSIVE all_neighbour_pairs(_, _)
all_neighbour_pairs(hp, v) ==
    IF v = hp.nvertices
    THEN <<>>
    ELSE neighbour_pairs(edgelist(hp, v), 1, 2) \o all_neighbour_pairs(hp, v + 1)

hamilton_prepare(hp) ==
    IF hp.ready
    THEN hp
    ELSE LET pairs == all_neighbour_pairs(hp, 0)
             list(e) == SelectSeq(pairs, LAMBDA x : x[1] = e)
         IN  [hp EXCEPT
                !.ready = TRUE,
                !.vdegree = [v \in 0..(hp.nvertices - 1) |-> Len(edgelist(hp, v))],
                !.edges = [e \in 1..hp.nedges |->
                              [hp.edges[e] EXCEPT
                                  !.neighbours = [i \in 1..Len(list(e)) |-> list(e)[i][2]]]]]

\* A delta that leaves out the edge's own flag.
edge_delta_neighbours_only(edges, e) ==
    4 - Cardinality({i \in 1..Len(edges[e].neighbours) :
                        edges[edges[e].neighbours[i]].active})

\* delta = 4 - (active neighbours) - 2 * active
edge_delta(edges, e) ==
    4 - Cardinality({i \in 1..Len(edges[e].neighbours) :
                        edges[edges[e].neighbours[i]].active})
      - (IF edges[e].active THEN 2 ELSE 0)

\* A pass that turns an edge on as soon as its level is above ON_THRESHOLD.
hamilton_iteration_unscaled(edges) ==
    LET levelled == [e \in 1..Len(edges) |->
                        [edges[e] EXCEPT !.level = @ + edge_delta(edges, e)]]
    IN  [ stable |-> \A e \in 1..Len(edges) : edge_delta(edges, e) = 0,
          edges |-> [e \in 1..Len(edges) |->
                        [levelled[e] EXCEPT !.active =
                            IF levelled[e].level > ON_THRESHOLD THEN TRUE
                            ELSE IF levelled[e].level < OFF_THRESHOLD THEN FALSE
                            ELSE @]] ]

hamilton_iteration(edges) ==
    LET levelled == [e \in 1..Len(edges) |->
                        [edges[e] EXCEPT !.level = @ + edge_delta(edges, e)]]
    IN  [ stable |-> \A e \in 1..Len(edges) : edge_delta(edges, e) = 0,
          edges |-> [e \in 1..Len(edges) |->
                        [levelled[e] EXCEPT !.active =
                            IF levelled[e].level > ON_THRESHOLD * 4 THEN TRUE
                            ELSE IF levelled[e].level < OFF_THRESHOLD THEN FALSE
                            ELSE @]] ]

\* The first loop of hamilton_check_result, from end k of the edge array on.
RECURSIVE check_degrees(_, _)
check_degrees(hp, k) ==
    IF k > 2 * hp.nedges
    THEN [ok |-> TRUE, h |-> hp]
    ELSE LET e == (k + 1) \div 2
             v == hp.edges[e].ends[((k + 1) % 2) + 1]
         IN  IF ~hp.edges[e].active
             THEN check_degrees(hp, k + 1)
             ELSE IF hp.vdegree[v] >= 2
             THEN [ok |-> FALSE, h |-> hp]
             ELSE check_degrees(
                      [hp EXCEPT !.vedges[v][hp.vdegree[v] + 1] = e,
                                 !.vdegree[v] = @ + 1],
                      k + 1)

\* The tracing loop with the virtual vertex written like any other.
RECURSIVE trace_cycle_keeps_extra(_, _, _, _, _)
trace_cycle_keeps_extra(hp, i, vertex, edge, outpos) ==
    IF i = hp.nvertices
    THEN [ok |-> vertex = hp.start_vertex, h |-> hp]
    ELSE IF i # 0 /\ vertex = hp.start_vertex
    THEN [ok |-> FALSE, h |-> hp]
    ELSE LET next_vertex == hp.edges[edge].ends[1] + hp.edges[edge].ends[2] - vertex
             next_edge == IF hp.vedges[next_vertex][1] = edge
                          THEN hp.vedges[next_vertex][2]
                          ELSE hp.vedges[next_vertex][1]
         IN  trace_cycle_keeps_extra(
                 [hp EXCEPT !.output_vertices[outpos] = vertex],
                 i + 1, next_vertex, next_edge, outpos + 1)

\* A tracing loop that stops one step before the count of vertices.
RECURSIVE trace_cycle_one_step_less(_, _, _, _, _)
trace_cycle_one_step_less(hp, i, vertex, edge, outpos) ==
    IF i = hp.nvertices - 1
    THEN [ok |-> vertex = hp.start_vertex, h |-> hp]
    ELSE IF i # 0 /\ vertex = hp.start_vertex
    THEN [ok |-> FALSE, h |-> hp]
    ELSE LET write == ~(hp.is_path /\ i = 0)
             next_vertex == hp.edges[edge].ends[1] + hp.edges[edge].ends[2] - vertex
             next_edge == IF hp.vedges[next_vertex][1] = edge
                          THEN hp.vedges[next_vertex][2]
                          ELSE hp.vedges[next_vertex][1]
         IN  trace_cycle_one_step_less(
                 IF write THEN [hp EXCEPT !.output_vertices[outpos] = vertex] ELSE hp,
                 i + 1, next_vertex, next_edge,
                 IF write THEN outpos + 1 ELSE outpos)

\* A tracing loop that goes on when it is back at the start too early.
RECURSIVE trace_cycle_any_length(_, _, _, _, _)
trace_cycle_any_length(hp, i, vertex, edge, outpos) ==
    IF i = hp.nvertices
    THEN [ok |-> vertex = hp.start_vertex, h |-> hp]
    ELSE LET write == ~(hp.is_path /\ i = 0)
             next_vertex == hp.edges[edge].ends[1] + hp.edges[edge].ends[2] - vertex
             next_edge == IF hp.vedges[next_vertex][1] = edge
                          THEN hp.vedges[next_vertex][2]
                          ELSE hp.vedges[next_vertex][1]
         IN  trace_cycle_any_length(
                 IF write THEN [hp EXCEPT !.output_vertices[outpos] = vertex] ELSE hp,
                 i + 1, next_vertex, next_edge,
                 IF write THEN outpos + 1 ELSE outpos)

\* The tracing loop of hamilton_check_result, which also writes the output.
RECURSIVE trace_cycle(_, _, _, _, _)
trace_cycle(hp, i, vertex, edge, outpos) ==
    IF i = hp.nvertices
    THEN [ok |-> vertex = hp.start_vertex, h |-> hp]
    ELSE IF i # 0 /\ vertex = hp.start_vertex
    THEN [ok |-> FALSE, h |-> hp]
    ELSE LET write == ~(hp.is_path /\ i = 0)
             next_vertex == hp.edges[edge].ends[1] + hp.edges[edge].ends[2] - vertex
             next_edge == IF hp.vedges[next_vertex][1] = edge
                          THEN hp.vedges[next_vertex][2]
                          ELSE hp.vedges[next_vertex][1]
         IN  trace_cycle(
                 IF write THEN [hp EXCEPT !.output_vertices[outpos] = vertex] ELSE hp,
                 i + 1, next_vertex, next_edge,
                 IF write THEN outpos + 1 ELSE outpos)

\* Which return of the tracing loop is taken: "too short" inside the loop,
\* "too long" or "cycle" after it.
RECURSIVE trace_return(_, _, _, _)
trace_return(hp, i, vertex, edge) ==
    IF i = hp.nvertices
    THEN IF vertex # hp.start_vertex THEN "too long" ELSE "cycle"
    ELSE IF i # 0 /\ vertex = hp.start_vertex
    THEN "too short"
    ELSE LET next_vertex == hp.edges[edge].ends[1] + hp.edges[edge].ends[2] - vertex
             next_edge == IF hp.vedges[next_vertex][1] = edge
                          THEN hp.vedges[next_vertex][2]
                          ELSE hp.vedges[next_vertex][1]
         IN  trace_return(hp, i + 1, next_vertex, next_edge)

\* The two loops before the trace: no vertex above degree 2, every one at 2.
degrees_counted(hp) ==
    check_degrees([hp EXCEPT !.vdegree = [v \in 0..(hp.nvertices - 1) |-> 0]], 1)

degree_check_passed(hp) ==
    /\ degrees_counted(hp).ok
    /\ \A v \in 0..(hp.nvertices - 1) : degrees_counted(hp).h.vdegree[v] = 2

\* A check that accepts whatever the iteration has converged to.
hamilton_check_result_unchecked(hp) == [ok |-> TRUE, h |-> hp]

hamilton_check_result(hp) ==
    LET counted == check_degrees(
                       [hp EXCEPT !.vdegree = [v \in 0..(hp.nvertices - 1) |-> 0]], 1)
    IN  IF ~counted.ok
        THEN counted
        ELSE IF \E v \in 0..(hp.nvertices - 1) : counted.h.vdegree[v] # 2
        THEN [ok |-> FALSE, h |-> counted.h]
        ELSE trace_cycle(counted.h, 0, hp.start_vertex,
                         counted.h.vedges[hp.start_vertex][1], 0)

\* A reversal of everything up to j, the first element included.
reverse_output_from_first(out, i, j) ==
    [k \in DOMAIN out |-> IF k <= j THEN out[j - k] ELSE out[k]]

\* while (j > i) swap output_vertices[i] and [j]
RECURSIVE reverse_output(_, _, _)
reverse_output(out, i, j) ==
    IF j > i
    THEN reverse_output([out EXCEPT ![i] = out[j], ![j] = out[i]], i + 1, j - 1)
    ELSE out

\* The update after an attempt that did not converge, read as: raise when
\* the failures exceed half of the successes.
after_failure_half_of_successes(r) ==
    LET nfail == r.nfail + 1
    IN  IF 2 * nfail > r.nok
        THEN [r EXCEPT !.iter_limit = (@ * 3) \div 2, !.nfail = 0]
        ELSE [r EXCEPT !.nfail = nfail]

\* nfail++; if (nok < nfail / 2) { iter_limit = iter_limit * 3 / 2; nfail = 0; }
after_failure(r) ==
    LET nfail == r.nfail + 1
    IN  IF r.nok < nfail \div 2
        THEN [r EXCEPT !.iter_limit = (@ * 3) \div 2, !.nfail = 0]
        ELSE [r EXCEPT !.nfail = nfail]

StarGraph ==
    add_edges(hamilton_cycle_new(4, 0), << <<0, 1>>, <<0, 2>>, <<0, 3>> >>)

Triangle ==
    add_edges(hamilton_cycle_new(3, 1), << <<0, 1>>, <<1, 2>>, <<2, 0>> >>)

\* The complete graph on four vertices and a fifth vertex without edges.
K4AndIsolated ==
    add_edges(hamilton_cycle_new(5, 0),
              << <<0, 1>>, <<0, 2>>, <<0, 3>>, <<1, 2>>, <<1, 3>>, <<2, 3>> >>)

\* Path mode on the path 0 - 1 - 2.
PathOfThree ==
    add_edges(hamilton_path_new(3), << <<0, 1>>, <<1, 2>> >>)

\* Two triangles without an edge between them: every vertex has degree 2
\* and there is no cycle through all six vertices.
TwoTriangles ==
    add_edges(hamilton_cycle_new(6, 0),
              << <<0, 1>>, <<1, 2>>, <<2, 0>>, <<3, 4>>, <<4, 5>>, <<5, 3>> >>)

\* The triangle before its last edge is added.
OpenTriangle ==
    add_edges(hamilton_cycle_new(3, 1), << <<0, 1>>, <<1, 2>> >>)

Graphs == {StarGraph, Triangle, K4AndIsolated, PathOfThree, TwoTriangles, OpenTriangle}

\* The caller adds edges before the run only up to this many: nedges grows
\* without bound.
MaxBuild == 3

\* The edges the caller may ask for.
NewEdges == {<<2, 0>>}

\* A call of hamilton_add_edge that adds the edge whether or not the graph
\* has been prepared.
AddEdge_without_assertion ==
    /\ pc \in {"hamilton_run", "returned"}
    /\ \E edge \in NewEdges :
          /\ ham.ready \/ ham.nedges < MaxBuild
          /\ ham' = hamilton_add_edge(ham, edge[1], edge[2])
          /\ pc' = pc
    /\ UNCHANGED <<run>>
    /\ UNCHANGED tour_vars
    /\ UNCHANGED play_vars

\* The caller calls hamilton_add_edge, before hamilton_run or after it has
\* returned: assert(!h->ready) and then the edge is appended.
AddEdge ==
    /\ pc \in {"hamilton_run", "returned"}
    /\ \E edge \in NewEdges :
          IF ham.ready
          THEN /\ pc' = "aborted"
               /\ UNCHANGED <<ham>>
          ELSE /\ ham.nedges < MaxBuild
               /\ ham' = hamilton_add_edge(ham, edge[1], edge[2])
               /\ pc' = pc
    /\ UNCHANGED <<run>>
    /\ UNCHANGED tour_vars
    /\ UNCHANGED play_vars

\* hamilton_run up to the loop: hamilton_prepare and the initial limit.
HamiltonRun ==
    /\ pc = "hamilton_run"
    /\ ham' = hamilton_prepare(ham)
    /\ run' = [iter_limit |-> 100, nfail |-> 0, nok |-> 0, iter |-> 0]
    /\ pc' = "try_converge"
    /\ UNCHANGED tour_vars
    /\ UNCHANGED play_vars

\* The graph of ham as the loop at the head of hamilton_try_converge leaves
\* it when the edges of the set on are drawn active and the others not:
\* e->level = 0; e->active = random_upto(rs, 2).
with_active(on) ==
    [ham EXCEPT !.edges = [e \in 1..ham.nedges |->
                              [ham.edges[e] EXCEPT !.level = 0,
                                                   !.active = (e \in on)]]]

\* hamilton_try_converge: every edge at level 0 and randomly on or off.
TryConverge ==
    /\ pc = "try_converge"
    /\ run.nok < MaxOk
    /\ run.iter_limit <= MaxIterLimit
    /\ \E on \in SUBSET (1..ham.nedges) : ham' = with_active(on)
    /\ run' = [run EXCEPT !.iter = 0]
    /\ pc' = "iterate"
    /\ UNCHANGED tour_vars
    /\ UNCHANGED play_vars

\* One pass of the for loop of hamilton_try_converge; a stable pass returns
\* iter + 1 and hamilton_run counts a success.
Iterate ==
    /\ pc = "iterate"
    /\ run.iter < run.iter_limit
    /\ LET it == hamilton_iteration(ham.edges)
       IN  /\ ham' = [ham EXCEPT !.edges = it.edges]
           /\ IF it.stable
              THEN /\ run' = [run EXCEPT !.iter = @ + 1, !.nok = @ + 1]
                   /\ pc' = "check_result"
              ELSE /\ run' = [run EXCEPT !.iter = @ + 1]
                   /\ pc' = "iterate"
    /\ UNCHANGED tour_vars
    /\ UNCHANGED play_vars

\* hamilton_try_converge returns 0: the attempt failed to converge.
ConvergeFailed ==
    /\ pc = "iterate"
    /\ run.iter >= run.iter_limit
    /\ run' = after_failure(run)
    /\ pc' = "try_converge"
    /\ UNCHANGED <<ham>>
    /\ UNCHANGED tour_vars
    /\ UNCHANGED play_vars

\* The converged state is not what was looked for: loop round again.
CheckRejected ==
    /\ pc = "check_result"
    /\ ~hamilton_check_result(ham).ok
    /\ ham' = hamilton_check_result(ham).h
    /\ pc' = "try_converge"
    /\ UNCHANGED <<run>>
    /\ UNCHANGED tour_vars
    /\ UNCHANGED play_vars

\* A cycle was generated: reverse it with probability 1/2 and return.
CheckAccepted ==
    /\ pc = "check_result"
    /\ hamilton_check_result(ham).ok
    /\ \E coin \in 0..1 :
          LET res == hamilton_check_result(ham).h
              i == IF res.is_path THEN 0 ELSE 1
              j == IF res.is_path THEN res.nvertices - 2 ELSE res.nvertices - 1
          IN  ham' = IF coin = 1
                     THEN [res EXCEPT !.output_vertices = reverse_output(@, i, j)]
                     ELSE res
    /\ pc' = "returned"
    /\ UNCHANGED <<run>>
    /\ UNCHANGED tour_vars
    /\ UNCHANGED play_vars

InitHamilton ==
    /\ pc = "hamilton_run"
    /\ ham \in Graphs
    /\ run = NoRun
    /\ rs = 0
    /\ gs = init_game_state(W, H)
    /\ walk = NoWalk
    /\ stack = <<>>
    /\ final_answer = FALSE
    /\ ub = FALSE
    /\ desc = NoDesc
    /\ state = init_game_state(W, H)
    /\ call = NoCall

NextHamilton ==
    \/ AddEdge
    \/ HamiltonRun
    \/ TryConverge
    \/ Iterate
    \/ ConvergeFailed
    \/ CheckRejected
    \/ CheckAccepted

SpecHamilton == InitHamilton /\ [][NextHamilton]_vars

(***************************************************************************)
(* Play: new_game on a description, then execute_move calls                *)
(***************************************************************************)
\* Descriptions new_game_desc has produced for 6 x 6: one with a revealed
\* connection (cell 17, direction 4) and one with none.
DescOneHint ==
    <<"0", "1", "3", "3", "0", "0", "3", "2", "0", "2", "0", "3", "3",
    "2", "3", "3", "3", "3", "2", "0", "2", "3", "0", "0", "2", "3", "2",
    "3", "3", "3", "0", "0", "3", "3", "1", "0", ".", "4", "1", "7">>

DescNoHint ==
    <<"3", "0", "3", "1", "3", "0", "2", "2", "3", "0", "3", "0", "0",
    "2", "2", "2", "0", "3", "3", "3", "1", "2", "0", "2", "3", "3", "2",
    "2", "3", "0", "3", "2", "3", "0", "0", "0">>

Descs == {DescOneHint, DescNoHint}

\* The cells the player's moves join: with DescOneHint an Endpoint (1), the
\* four turn cells of a knight's rhombus (3, 7, 15, 11), two more turn
\* cells (9, 14), an Unvisited cell (10) and the two cells of the revealed
\* connection (17, 28).
PlayCells == {1, 3, 7, 9, 10, 11, 14, 15, 17, 28}

\* The number of execute_move calls of one game.
MaxCalls == 4

\* Moves execute_move applies or ignores, and moves it rejects: a direction
\* digit above 7, a cell index outside the board, a destination off the board.
Moves == [i : 0..7, pos : PlayCells]
GoodMoves ==
    {m \in Moves : attempt_move(m.pos, knight_moves[m.i], W, H) \in PlayCells}
BadMoves ==
    {[i |-> 8, pos |-> 7], [i |-> 2, pos |-> W * H], [i |-> 2, pos |-> -1],
     [i |-> 0, pos |-> 1]}

\* A drag: several moves in one string.  On DescNoHint this one connects
\* the Endpoint 3 to 14, takes the connection back, makes it again, connects
\* 3 to 7 and goes on from 14 over 18 to 7.
Drags ==
    {<< [i |-> 4, pos |-> 3], [i |-> 4, pos |-> 3], [i |-> 4, pos |-> 3],
        [i |-> 5, pos |-> 3], [i |-> 5, pos |-> 14], [i |-> 0, pos |-> 18] >>}

\* The move strings: one move, a move from cell 7 followed by a move that
\* is rejected, or a drag.
Batches ==
    {<<m>> : m \in GoodMoves \cup BadMoves}
        \cup {<<m, b>> : m \in {n \in GoodMoves : n.pos = 7}, b \in BadMoves}
        \cup Drags

\* One call of execute_move: a new state becomes the current one, NULL
\* leaves the current state in place.
ExecuteMove ==
    /\ pc = "play"
    /\ call.ncalls < MaxCalls
    /\ \E moves \in Batches :
          LET r == execute_move(state, moves)
          IN  /\ state' = IF r.returned = "NULL" THEN state ELSE r.g
              /\ call' = [returned |-> r.returned, nmoves |-> Len(moves),
                          ncalls |-> call.ncalls + 1]
              /\ pc' = IF r.ok THEN pc ELSE "undefined"
    /\ UNCHANGED <<desc>>
    /\ UNCHANGED tour_vars
    /\ UNCHANGED hamilton_vars

InitPlay ==
    /\ pc = "new_game"
    /\ desc \in Descs
    /\ state = init_game_state(W, H)
    /\ call = NoCall
    /\ rs = 0
    /\ gs = init_game_state(W, H)
    /\ walk = NoWalk
    /\ stack = <<>>
    /\ final_answer = FALSE
    /\ ub = FALSE
    /\ ham = NoHamilton
    /\ run = NoRun

NextPlay ==
    \/ NewGame
    \/ ExecuteMove

SpecPlay == InitPlay /\ [][NextPlay]_vars

\* The program from the seed to the played game: new_game_desc generates a
\* puzzle, new_game loads its description and the player moves on it.
\* MaxGameCalls is the number of execute_move calls of a generated game.
MaxGameCalls == 2

GameMove ==
    /\ call.ncalls < MaxGameCalls
    /\ ExecuteMove

NextGame ==
    \/ Next
    \/ GameMove

SpecGame == Init /\ [][NextGame]_vars

(***************************************************************************)
(* attempt_move on its own: one call on a board of any size up to MaxBoard *)
(***************************************************************************)
\* The boards are up to MaxBoard wide and high.
MaxBoard == 5

\* attempt_move(pos, knight_moves[i], w, h) is called and returns.
AttemptMove ==
    /\ pc = "attempt_move"
    /\ call' = [call EXCEPT !.returned =
                   attempt_move(call.pos, knight_moves[call.i], call.w, call.h)]
    /\ pc' = "moved"
    /\ UNCHANGED <<desc, state>>
    /\ UNCHANGED tour_vars
    /\ UNCHANGED hamilton_vars

InitGeometry ==
    /\ pc = "attempt_move"
    /\ \E w, h \in 1..MaxBoard : \E pos \in 0..(w * h - 1) : \E i \in 0..7 :
          call = [w |-> w, h |-> h, pos |-> pos, i |-> i, returned |-> -2]
    /\ desc = NoDesc
    /\ state = init_game_state(W, H)
    /\ rs = 0
    /\ gs = init_game_state(W, H)
    /\ walk = NoWalk
    /\ stack = <<>>
    /\ final_answer = FALSE
    /\ ub = FALSE
    /\ ham = NoHamilton
    /\ run = NoRun

NextGeometry == AttemptMove

SpecGeometry == InitGeometry /\ [][NextGeometry]_vars

(***************************************************************************)
(* Properties of the walk                                                  *)
(***************************************************************************)
Cells == 0..(W * H - 1)

WalkDone ==
    \/ pc = "walk" /\ walk.cells_left = 0
    \/ pc \in {"unique_solution", "encode", "aborted"}

\* The cells of the walk in order: the start, then one move at a time.
WalkPath ==
    LET p[i \in 0..(gs.ncells - 1)] ==
            IF i = 0
            THEN gs.ends[0]
            ELSE p[i - 1] + knight_moves[walk.moves[i - 1]].y * W
                          + knight_moves[walk.moves[i - 1]].x
    IN  p

\* b is a knight's move away from a, both on the board.
KnightStep(a, b) ==
    /\ a \in Cells
    /\ b \in Cells
    /\ LET dx == (b % W) - (a % W)
           dy == (b \div W) - (a \div W)
       IN  dx * dx + dy * dy = 5

\* C5: a completed walk visits exactly ncells = w*h - nunvisited distinct
\* cells, enters no cell twice, every step is an in-bounds knight move, and
\* the number of cells left with kind 0 equals nunvisited.
C5_WalkVisitsNcellsDistinctCells ==
    WalkDone =>
        LET p == WalkPath
        IN  /\ gs.ncells = W * H - gs.nunvisited
            /\ Cardinality({p[i] : i \in 0..(gs.ncells - 1)}) = gs.ncells
            /\ \A i \in 0..(gs.ncells - 2) : KnightStep(p[i], p[i + 1])
            /\ Cardinality({c \in Cells : gs.grid[c] = 0}) = gs.nunvisited

C5_Witness ==
    /\ pc = "walk"
    /\ walk.cells_left = 0
    /\ gs.nunvisited > 0
    /\ walk.moves[gs.ncells - 2] # -1

\* The number of not-yet-visited in-bounds knight-neighbours of a cell.
unvisited_neighbors(grid, pos) ==
    Cardinality({i \in 0..7 :
        /\ attempt_move(pos, knight_moves[i], W, H) >= 0
        /\ grid[attempt_move(pos, knight_moves[i], W, H)] = 0})

\* C6: in every step of a walk attempt the chosen next cell is a
\* not-yet-visited in-bounds neighbour whose own number of not-yet-visited
\* neighbours is minimal, the first such in the shuffled direction order.
C6_NextCellHasFewestUnvisitedNeighbors ==
    (pc = "walk" /\ walk.cells_left > 0 /\ WalkChoice.next_pos # -1) =>
        LET order == WalkShuffled.array
            dest(i) == attempt_move(walk.pos, knight_moves[order[i]], W, H)
            cand == {i \in 0..7 : dest(i) >= 0 /\ gs.grid[dest(i)] = 0}
            num(i) == unvisited_neighbors(gs.grid, dest(i))
            best == CHOOSE i \in cand :
                        \A j \in cand : num(i) < num(j) \/ (num(i) = num(j) /\ i <= j)
        IN  /\ WalkChoice.next_pos = dest(best)
            /\ WalkChoice.move_i = order[best]

\* C7: after a completed walk exactly its first and last cell have kind 1,
\* every other visited cell has kind 2 when the moves into and out of it
\* have the same index parity and kind 3 otherwise, and every cell the walk
\* did not visit has kind 0.
C7_KindsAfterWalk ==
    WalkDone =>
        LET p == WalkPath
            last == gs.ncells - 1
        IN  /\ \A c \in Cells : gs.grid[c] = 1 <=> c \in {p[0], p[last]}
            /\ \A i \in 1..(last - 1) :
                   gs.grid[p[i]] = IF walk.moves[i - 1] % 2 = walk.moves[i] % 2
                                   THEN 2 ELSE 3
            /\ \A c \in Cells :
                   c \notin {p[i] : i \in 0..last} => gs.grid[c] = 0

C7_Witness ==
    /\ pc = "walk"
    /\ walk.cells_left = 0
    /\ \E c \in Cells : gs.grid[c] = 2
    /\ \E c \in Cells : gs.grid[c] = 3
    /\ \E c \in Cells : gs.grid[c] = 0

(***************************************************************************)
(* Properties of unique_solution at generation time                        *)
(***************************************************************************)
\* The revealed hints: the directions written to conn_pairs, per cell.
Hints == {hint \in Cells \X (0..7) :
             \E k \in 0..1 : gs.conn_pairs[2 * hint[1] + k] = hint[2]}

\* The number of ways to extend a path that has arrived at pos by direction
\* inmove (-1 at the start) to a tour: every non-Unvisited cell once, ending
\* at ends[1], turns matching the kinds, every hint at a cell used there.
RECURSIVE count_tours(_, _, _, _)
count_tours(hints, pos, inmove, visited) ==
    LET indir == IF inmove = -1 THEN -1 ELSE (inmove + 4) % 8
        hints_here == {m \in 0..7 : <<pos, m>> \in hints}
        nb(d) == attempt_move(pos, knight_moves[d], W, H)
        turn_ok(d) == \/ inmove = -1
                      \/ gs.grid[pos] = 2 /\ (indir + d) % 2 = 0
                      \/ gs.grid[pos] = 3 /\ (indir + d) % 2 = 1
        ok(d) == /\ nb(d) >= 0
                 /\ nb(d) \notin visited
                 /\ gs.grid[nb(d)] # 0
                 /\ turn_ok(d)
                 /\ hints_here \subseteq {indir, d}
        via(d) == IF ok(d)
                  THEN count_tours(hints, nb(d), d, visited \cup {nb(d)})
                  ELSE 0
    IN  IF Cardinality(visited) = gs.ncells
        THEN IF pos = gs.ends[1] /\ hints_here \subseteq {indir} THEN 1 ELSE 0
        ELSE IF gs.grid[pos] = 1 /\ inmove # -1
        THEN 0
        ELSE via(0) + via(1) + via(2) + via(3) + via(4) + via(5) + via(6) + via(7)

TourCount == count_tours(Hints, gs.ends[0], -1, {gs.ends[0]})

\* C1: when the generation-time call returns true, exactly one knight's-move
\* path joins the two Endpoint cells through every non-Unvisited cell once,
\* with every interior turn matching its kind and every revealed hint on it.
C1_ExactlyOneTourFitsTheHints ==
    (pc = "encode" /\ final_answer) => TourCount = 1

\* C2: the depth-0 call of generation returns true; neither a contradiction
\* nor the exhaustion of the assumptions is its final result.
C2_GenerationCallReturnsTrue ==
    /\ pc = "encode" => final_answer
    /\ (pc = "unique_solution" /\ Len(stack) = 1) => stack[1].at # "return_false"

C2_Witness ==
    /\ pc = "encode"
    /\ final_answer
    /\ Hints # {}

\* The propagation loop alone, run until the queue is empty or a
\* contradiction exit is taken.
RECURSIVE run_queue(_, _)
run_queue(grid, c) ==
    IF c.status # "ok" \/ tdq_remove(c.todo) = -1
    THEN c
    ELSE run_queue(grid, loop_body(grid, [c EXCEPT !.todo = tdq_removed(@)],
                                   tdq_remove(c.todo)))

\* The solver state c with the given hints connected, in cell order.
RECURSIVE with_hints(_, _)
with_hints(c, hints) ==
    IF hints = {}
    THEN c
    ELSE LET hint == CHOOSE x \in hints :
                         \A y \in hints : 8 * x[1] + x[2] <= 8 * y[1] + y[2]
             pos == hint[1]
             d == hint[2]
         IN  with_hints(IF c.connected[8 * pos + d] THEN c ELSE ctx_connect(c, pos, d),
                        hints \ {hint})

HintsOnly == run_queue(gs.grid, with_hints(initial_ctx(gs), Hints))

\* The connections of the walk, as a connected array.
WalkConnected ==
    LET p == WalkPath
    IN  [k \in 0..(8 * W * H - 1) |->
            \E i \in 0..(gs.ncells - 2) :
                \/ k = 8 * p[i] + walk.moves[i]
                \/ k = 8 * p[i + 1] + ((walk.moves[i] + 4) % 8)]

\* C3: from the fresh solver state with only the hints pre-connected, the
\* propagation loop alone ends with opposite_ends = -1 at every cell and
\* with exactly the connections of the walk that generated the hints.
C3_HintsAndPropagationReproduceTheWalk ==
    (pc = "encode" /\ final_answer) =>
        /\ HintsOnly.status = "ok"
        /\ \A c \in Cells : HintsOnly.opposite_ends[c] = -1
        /\ HintsOnly.connected = WalkConnected

\* The number of connected directions of a cell.
degree(connected, c) == Cardinality({d \in 0..7 : connected[8 * c + d]})

\* C4: in the context that reports success every Endpoint has exactly one
\* connected direction, every turn cell two, every Unvisited cell none, and
\* every connection is mirrored at its destination.
C4_SolvedContextHasATour ==
    (pc = "unique_solution" /\ Top.at = "solved") =>
        /\ \A c \in Cells :
               degree(Top.connected, c) =
                   IF gs.grid[c] = 0 THEN 0 ELSE IF gs.grid[c] = 1 THEN 1 ELSE 2
        /\ \A c \in Cells : \A d \in 0..7 :
               Top.connected[8 * c + d] =>
                   /\ neighbors[8 * c + d] >= 0
                   /\ Top.connected[8 * neighbors[8 * c + d] + ((d + 4) % 8)]

(***************************************************************************)
(* Properties of hamilton_run                                              *)
(***************************************************************************)
\* Some edge given to hamilton_add_edge joins a and b.
joined(a, b) ==
    \E e \in 1..ham.nedges : {ham.edges[e].ends[1], ham.edges[e].ends[2]} = {a, b}

\* C8: when hamilton_run returns, output_vertices lists every real vertex
\* exactly once (never the virtual vertex of path mode) and consecutive
\* entries, and the last and first in cycle mode, are joined by an edge
\* that was passed to hamilton_add_edge.
C8_OutputIsAHamiltonCycleOrPath ==
    pc = "returned" =>
        LET n == IF ham.is_path THEN ham.nvertices - 1 ELSE ham.nvertices
            out == ham.output_vertices
        IN  /\ {out[i] : i \in 0..(n - 1)} = 0..(n - 1)
            /\ \A i \in 0..(n - 2) : joined(out[i], out[i + 1])
            /\ ~ham.is_path => joined(out[n - 1], out[0])
            /\ ~ham.is_path => out[0] = ham.start_vertex

C8_Witness ==
    /\ pc = "returned"
    /\ ham.is_path
    /\ ham.output_vertices[0] = 2
    /\ run.nok = 1

IsStar ==
    /\ ham.nvertices = 4
    /\ ~ham.is_path
    /\ ham.nedges = 3
    /\ \A e \in 1..3 : ham.edges[e].ends = <<0, e>>

\* C9: on the star graph hamilton_run never returns; every attempt that
\* converges is rejected by the degree checks of hamilton_check_result.
C9_StarGraphNeverReturns ==
    IsStar =>
        /\ pc # "returned"
        /\ pc = "check_result" =>
              LET counted == check_degrees(
                      [ham EXCEPT !.vdegree = [v \in 0..(ham.nvertices - 1) |-> 0]], 1)
              IN  \/ ~counted.ok
                  \/ \E v \in 0..(ham.nvertices - 1) : counted.h.vdegree[v] # 2

C9_Witness ==
    /\ IsStar
    /\ pc = "try_converge"
    /\ run.nok = 2
    /\ \A e \in 1..3 : ham.edges[e].active

\* The step that ends an attempt that failed to converge.
FailedAttempt == pc = "iterate" /\ pc' = "try_converge"

\* C10 as stated: after a failed attempt iter_limit is multiplied by 1.5 and
\* the failure counter reset exactly when the failures exceed half of the
\* successes; the success counter is never reset; iter_limit starts at 100.
C10_RaisedWhenFailuresExceedHalfTheSuccesses ==
    /\ [][FailedAttempt =>
            LET nfail == run.nfail + 1
            IN  IF 2 * nfail > run.nok
                THEN 2 * run'.iter_limit = 3 * run.iter_limit /\ run'.nfail = 0
                ELSE run'.iter_limit = run.iter_limit /\ run'.nfail = nfail]_vars
    /\ [][pc # "hamilton_run" => run'.nok >= run.nok]_vars
    /\ [][(pc = "hamilton_run" /\ pc' = "try_converge") => run'.iter_limit = 100]_vars

\* C10, amended: after a failed attempt iter_limit becomes iter_limit * 3 / 2
\* rounded down and the failure counter is reset exactly when half of the
\* failures, rounded down, exceeds the successes; otherwise iter_limit is
\* kept; the success counter never decreases; iter_limit starts at 100 and
\* changes at no other step.
C10_RaisedWhenHalfTheFailuresExceedTheSuccesses ==
    /\ [][FailedAttempt =>
            LET nfail == run.nfail + 1
            IN  IF nfail \div 2 > run.nok
                THEN /\ run'.iter_limit = (3 * run.iter_limit) \div 2
                     /\ run'.nfail = 0
                ELSE /\ run'.iter_limit = run.iter_limit
                     /\ run'.nfail = nfail]_vars
    /\ [][pc # "hamilton_run" => run'.nok >= run.nok]_vars
    /\ [][(pc = "hamilton_run" /\ pc' = "try_converge") => run'.iter_limit = 100]_vars
    /\ [][(pc # "hamilton_run" /\ ~FailedAttempt) =>
            (run'.iter_limit = run.iter_limit /\ run'.nfail = run.nfail)]_vars

C10_Witness ==
    /\ pc = "try_converge"
    /\ run.iter_limit = 337
    /\ run.nok = 1
    /\ run.nfail = 0

(***************************************************************************)
(* Properties of play: new_game and execute_move                           *)
(***************************************************************************)
Playing == pc = "play"

\* The directions a cell holds in conn_pairs.
conn_dirs(g, c) == {g.conn_pairs[2 * c], g.conn_pairs[2 * c + 1]} \ {8}

\* The number of connections of a cell: its used slots.
conn_count(g, c) ==
    (IF g.conn_pairs[2 * c] # 8 THEN 1 ELSE 0)
        + (IF g.conn_pairs[2 * c + 1] # 8 THEN 1 ELSE 0)

\* The graph conn_pairs describes, with each Endpoint of the tour attached
\* to its sentinel w*h or w*h+1.
chain_adjacent(g, x) ==
    LET n == g.w * g.h
    IN  IF x = n THEN {g.ends[0]}
        ELSE IF x = n + 1 THEN {g.ends[1]}
        ELSE {step(g, x, d) : d \in conn_dirs(g, x)}
                 \cup (IF x = g.ends[0] THEN {n} ELSE {})
                 \cup (IF x = g.ends[1] THEN {n + 1} ELSE {})

RECURSIVE chain_of(_, _)
chain_of(g, S) ==
    LET T == S \cup UNION {chain_adjacent(g, x) : x \in S}
    IN  IF T = S THEN S ELSE chain_of(g, T)

\* What opposite_ends[x] is when derived from scratch: the set of values
\* the description of the map allows.
derived_ends(g, x) ==
    LET n == g.w * g.h
        adj == chain_adjacent(g, x)
        chain == chain_of(g, {x})
    IN  IF x < n /\ g.grid[x] = 0 /\ adj = {}
        THEN {-1}
        ELSE IF adj = {}
        THEN {x}
        ELSE IF \E y \in chain : Cardinality(chain_adjacent(g, y)) > 2
        THEN {}
        ELSE IF \A y \in chain : Cardinality(chain_adjacent(g, y)) = 2
        THEN {-3}
        ELSE IF Cardinality(adj) = 1
        THEN {y \in chain \ {x} : Cardinality(chain_adjacent(g, y)) = 1}
        ELSE {-1, -2}

\* C11: in every state reached by execute_move calls, opposite_ends is the
\* map derived from conn_pairs: a cell without connection maps to itself
\* (an Unvisited cell to -1), an end of an open chain to the other end,
\* an interior cell to a negative value, a cell of a closed loop to -3.
C11_OppositeEndsIsTheDerivedMap ==
    Playing =>
        \A x \in 0..(W * H + 1) : state.opposite_ends[x] \in derived_ends(state, x)

\* C12: in every state reached by execute_move calls, opposite_ends is
\* symmetric on its entries that are not negative.
C12_OppositeEndsIsSymmetric ==
    Playing =>
        \A x \in 0..(W * H + 1) :
            state.opposite_ends[x] >= 0 =>
                state.opposite_ends[state.opposite_ends[x]] = x

\* The move m is applied to g as a new connection.
adds_connection(g, m) ==
    LET r == execute_move(g, <<m>>)
    IN  /\ r.returned = "state"
        /\ m.i \notin conn_dirs(g, m.pos)
        /\ m.i \in conn_dirs(r.g, m.pos)

\* C13: a move applied as a new connection and then applied again gives
\* back the conn_pairs and the opposite_ends from before the first one.
C13_MoveThenSameMoveRestores ==
    Playing =>
        \A m \in GoodMoves :
            adds_connection(state, m) =>
                LET once == execute_move(state, <<m>>).g
                    twice == execute_move(once, <<m>>).g
                IN  /\ twice.conn_pairs = state.conn_pairs
                    /\ twice.opposite_ends = state.opposite_ends

\* Some move of the string has a direction digit outside 0..7, a cell index
\* outside the board or a destination off the board.
names_bad_move(moves) ==
    \E k \in 1..Len(moves) :
        LET m == moves[k]
        IN  \/ m.i \notin 0..7
            \/ m.pos \notin 0..(W * H - 1)
            \/ (m.pos % W) + knight_moves[m.i].x \notin 0..(W - 1)
            \/ (m.pos \div W) + knight_moves[m.i].y \notin 0..(H - 1)

\* C14: a move string naming a bad direction, cell or destination makes
\* execute_move return NULL, also after valid moves of the same string,
\* and a call that returns NULL leaves the state as it was.
C14_BadMoveReturnsNullAndKeepsState ==
    /\ [](Playing =>
            \A moves \in Batches :
                names_bad_move(moves) =>
                    execute_move(state, moves).returned = "NULL")
    /\ [][call'.returned = "NULL" => state' = state]_vars

C14_Witness ==
    /\ Playing
    /\ call.returned = "NULL"
    /\ call.nmoves = 2
    /\ \E c \in PlayCells : conn_count(state, c) > 0 /\ ~state.start_pairs[2 * c]

\* The state new_game loaded the description into.
Loaded == new_game(W, H, desc)

\* C15: every connection flagged in start_pairs stays in conn_pairs at both
\* of its cells and stays flagged, and a move that names it, from either
\* cell, changes neither conn_pairs nor opposite_ends.
C15_PermanentConnectionsStay ==
    Playing =>
        \A loaded \in {Loaded} :
            /\ \A k \in 0..(2 * W * H - 1) :
                   loaded.start_pairs[k] =>
                       /\ state.start_pairs[k]
                       /\ state.conn_pairs[k] = loaded.conn_pairs[k]
                       /\ (loaded.conn_pairs[k] + 4) % 8 \in
                              conn_dirs(state,
                                        step(state, k \div 2, loaded.conn_pairs[k]))
            /\ \A m \in GoodMoves :
                   (\E k \in {2 * m.pos, 2 * m.pos + 1} :
                        loaded.start_pairs[k] /\ loaded.conn_pairs[k] = m.i) =>
                       \A after \in {execute_move(state, <<m>>).g} :
                           /\ after.conn_pairs = state.conn_pairs
                           /\ after.opposite_ends = state.opposite_ends

\* The first call named the revealed connection from cell 17: the cursor
\* is on cell 28 and nothing has been connected.
C15_Witness ==
    /\ Playing
    /\ desc = DescOneHint
    /\ call.returned = "state"
    /\ call.ncalls = 1
    /\ state.cx = 28 % W
    /\ state.cy = 28 \div W
    /\ state.conn_pairs = Loaded.conn_pairs

\* The cells joined to the cells of S by connections of conn_pairs.
RECURSIVE connected_cells(_, _)
connected_cells(g, S) ==
    LET T == S \cup UNION {{step(g, x, d) : d \in conn_dirs(g, x)} : x \in S}
    IN  IF T = S THEN S ELSE connected_cells(g, T)

\* The move m joins the two ends of one open chain of g, each recorded as
\* the opposite end of the other.
closes_loop(g, m) ==
    LET start == m.pos
        pos == attempt_move(start, knight_moves[m.i], g.w, g.h)
    IN  /\ m.i \notin conn_dirs(g, start)
        /\ g.opposite_ends[start] = pos
        /\ g.opposite_ends[pos] = start
        /\ conn_count(g, start) = 1
        /\ conn_count(g, pos) = 1
        /\ pos \in connected_cells(g, {start})

\* C16: a connection between the two ends of one open chain is applied,
\* every cell of the closed loop gets opposite_ends -3, and no entry of
\* opposite_ends outside the loop changes.
C16_ClosingAChainMarksTheLoop ==
    Playing =>
        \A m \in GoodMoves :
            closes_loop(state, m) =>
                \A r \in {execute_move(state, <<m>>)} :
                    /\ r.returned = "state"
                    /\ m.i \in conn_dirs(r.g, m.pos)
                    /\ \A x \in 0..(W * H + 1) :
                           r.g.opposite_ends[x] =
                               IF x \in connected_cells(r.g, {m.pos})
                               THEN -3
                               ELSE state.opposite_ends[x]

\* The fourth call has closed the rhombus 3, 7, 15, 11.
C16_Witness ==
    /\ Playing
    /\ call.returned = "state"
    /\ \A c \in {3, 7, 11, 15} :
           state.opposite_ends[c] = -3 /\ conn_count(state, c) = 2
    /\ connected_cells(state, {3}) = {3, 7, 11, 15}

(***************************************************************************)
(* Properties of the solver state                                          *)
(***************************************************************************)
\* The slot of the neighbour that mirrors slot k = 8 * cell + direction.
mirror(k) == 8 * neighbors[k] + (((k % 8) + 4) % 8)

symmetric(arr) ==
    \A k \in 0..(8 * W * H - 1) : neighbors[k] >= 0 => arr[k] = arr[mirror(k)]

\* C17 as stated: between two work-queue steps, and right after the
\* initialisation, can_connect and connected are both symmetric.
C17_CandidatesAndConnectionsSymmetric ==
    pc = "unique_solution" =>
        \A f \in 1..Len(stack) :
            symmetric(stack[f].can_connect) /\ symmetric(stack[f].connected)

\* C17, amended: connected is symmetric; can_connect is symmetric between
\* two cells that are not Unvisited, and an Unvisited cell has no candidate
\* (the candidate towards it stays until its neighbour is processed).
C17_SymmetricBetweenVisitedCells ==
    pc = "unique_solution" =>
        \A f \in 1..Len(stack) :
            /\ symmetric(stack[f].connected)
            /\ \A k \in 0..(8 * W * H - 1) :
                   /\ gs.grid[k \div 8] = 0 => ~stack[f].can_connect[k]
                   /\ (neighbors[k] >= 0 /\ gs.grid[k \div 8] > 0
                           /\ gs.grid[neighbors[k]] > 0) =>
                          stack[f].can_connect[k] = stack[f].can_connect[mirror(k)]

\* A nested invocation after some work-queue steps, with a connection made
\* and a candidate between two visited cells removed.
C17_Witness ==
    /\ pc = "unique_solution"
    /\ Len(stack) >= 2
    /\ \E k \in 0..(8 * W * H - 1) : Top.connected[k]
    /\ \E k \in 0..(8 * W * H - 1) :
           /\ neighbors[k] >= 0
           /\ gs.grid[k \div 8] > 0
           /\ gs.grid[neighbors[k]] > 0
           /\ ~Top.can_connect[k]

(***************************************************************************)
(* Properties of the description                                           *)
(***************************************************************************)
\* C18: new_game applied to the description new_game_desc emitted yields
\* the cell kinds of the generator state and the same revealed connections,
\* each stored at both of its cells in opposite directions; this includes
\* a puzzle with no revealed connection.
C18_DescriptionRoundTrip ==
    Playing =>
        /\ state.grid = gs.grid
        /\ \A c \in Cells :
               /\ conn_dirs(state, c) = conn_dirs(gs, c)
               /\ conn_count(state, c) = conn_count(gs, c)
               /\ \A d \in conn_dirs(state, c) :
                      /\ neighbors[8 * c + d] >= 0
                      /\ ((d + 4) % 8) \in conn_dirs(state, neighbors[8 * c + d])

\* A generated puzzle with a revealed connection at a cell whose number
\* has two digits, loaded from its description.
C18_Witness ==
    /\ Playing
    /\ desc = encode_desc(gs)
    /\ \E c \in Cells : c >= 10 /\ conn_count(gs, c) > 0 /\ conn_count(state, c) > 0

(***************************************************************************)
(* Properties of the connections during play                               *)
(***************************************************************************)
\* The degree of a cell kind: Unvisited 0, Endpoint 1, either turn 2.
kind_degree(kind) == IF kind = 0 THEN 0 ELSE IF kind = 1 THEN 1 ELSE 2

\* C19: in every state reachable from new_game by execute_move calls, a
\* cell never has more connections than the degree of its kind.
C19_ConnectionsWithinDegree ==
    Playing => \A c \in Cells : conn_count(state, c) <= kind_degree(state.grid[c])

\* C20: in every state reachable from new_game by execute_move calls, cell
\* c holds direction d exactly when its in-bounds neighbour in direction d
\* holds direction (d+4) mod 8.
C20_ConnPairsMirrored ==
    Playing =>
        \A k \in 0..(8 * W * H - 1) :
            neighbors[k] >= 0 =>
                ((k % 8) \in conn_dirs(state, k \div 8)
                    <=> (((k % 8) + 4) % 8) \in conn_dirs(state, neighbors[k]))

\* A state after several calls in which a connection made by the player,
\* one the loaded puzzle did not have, is in place.
C20_Witness ==
    /\ Playing
    /\ call.ncalls >= 2
    /\ \A loaded \in {Loaded} :
           \E c \in Cells : conn_dirs(state, c) \ conn_dirs(loaded, c) # {}

(***************************************************************************)
(* Properties of the marks in opposite_ends during play                    *)
(***************************************************************************)
\* Two connections whose direction parities do not fit the kind of the cell:
\* an OrthogonalTurn (2) with different parities, a DiagonalTurn (3) with
\* equal parities.
contradicts_kind(kind, d1, d2) ==
    \/ (kind = 2 /\ d1 % 2 # d2 % 2)
    \/ (kind = 3 /\ d1 % 2 = d2 % 2)

\* C21: in every state reachable by execute_move, a cell that is not on a
\* closed loop is marked -2 exactly when it has two connections whose
\* parities contradict its kind; a cell with fewer than two connections is
\* never marked -2.
C21_MinusTwoMeansContradictoryAngle ==
    Playing =>
        \A c \in Cells :
            state.opposite_ends[c] # -3 =>
                (state.opposite_ends[c] = -2
                    <=> /\ conn_count(state, c) = 2
                        /\ contradicts_kind(state.grid[c],
                                            state.conn_pairs[2 * c],
                                            state.conn_pairs[2 * c + 1]))

(***************************************************************************)
(* Properties of connect_ends                                              *)
(***************************************************************************)
\* a and b are ends of two different chains of the map.
ends_of_two_chains(map, a, b) ==
    /\ a # b
    /\ map[a] >= 0
    /\ map[b] >= 0
    /\ map[a] # b

\* What connect_ends(map, a, b) is to do: the far ends point at each other,
\* a and b become -1 exactly when they were not isolated, nothing else
\* changes.
joins_the_chains(map, a, b) ==
    \A after \in {connect_ends(map, a, b)} :
        /\ after[map[a]] = map[b]
        /\ after[map[b]] = map[a]
        /\ (after[a] = -1) <=> (map[a] # a)
        /\ (after[b] = -1) <=> (map[b] # b)
        /\ \A k \in DOMAIN map :
               k \notin {a, b, map[a], map[b]} => after[k] = map[k]

\* C22: connect_ends(map, a, b), called with a and b being ends of two
\* different chains, makes the far ends point at each other, sets a
\* (b) to -1 exactly when a (b) was not isolated, and changes no other
\* entry.  Checked on the map of every solver context.
C22_ConnectEndsJoinsTwoChains ==
    pc = "unique_solution" =>
        \A f \in 1..Len(stack) :
            \A a, b \in DOMAIN stack[f].opposite_ends :
                ends_of_two_chains(stack[f].opposite_ends, a, b) =>
                    joins_the_chains(stack[f].opposite_ends, a, b)

\* A solver context in which connections have been made, with a chain end a
\* that is not isolated and an isolated cell b to join it to.
C22_Witness ==
    /\ pc = "unique_solution"
    /\ \E k \in 0..(8 * W * H - 1) : Top.connected[k]
    /\ \E a, b \in Cells :
           /\ ends_of_two_chains(Top.opposite_ends, a, b)
           /\ Top.opposite_ends[a] # a
           /\ Top.opposite_ends[b] = b
           /\ \E d \in 0..7 : neighbors[8 * a + d] = b /\ Top.can_connect[8 * a + d]

(***************************************************************************)
(* Properties of the removal of a loop connection                          *)
(***************************************************************************)
AllMoves == {m \in [i : 0..7, pos : Cells] :
                attempt_move(m.pos, knight_moves[m.i], W, H) >= 0}

\* The move m takes back a connection of a closed loop of g whose cells are
\* all marked -3.
opens_loop(g, m) ==
    LET start == m.pos
        pos == attempt_move(start, knight_moves[m.i], g.w, g.h)
    IN  /\ \E k \in 0..1 : g.conn_pairs[2 * start + k] = m.i
                              /\ ~g.start_pairs[2 * start + k]
        /\ ((m.i + 4) % 8) \in conn_dirs(g, pos)
        /\ \A x \in connected_cells(g, {start}) :
               g.opposite_ends[x] = -3 /\ conn_count(g, x) = 2

\* Two connections fit the kind of a cell: equal parities at an
\* OrthogonalTurn (2), different parities at a DiagonalTurn (3).
fits_kind(kind, d1, d2) ==
    \/ (kind = 2 /\ d1 % 2 = d2 % 2)
    \/ (kind = 3 /\ d1 % 2 # d2 % 2)

\* C23: when execute_move removes a connection of a loop marked -3, every
\* other cell of the loop gets -1 if its two connections fit its kind and
\* -2 otherwise, the two cells of the removed connection become each
\* other's opposite end, and no cell outside the loop changes.
C23_OpeningALoopRecomputesTheMarks ==
    Playing =>
        \A m \in AllMoves :
            opens_loop(state, m) =>
                \A r \in {execute_move(state, <<m>>)} :
                    \A pos \in {attempt_move(m.pos, knight_moves[m.i], W, H)} :
                        \A loop \in {connected_cells(state, {m.pos})} :
                            /\ r.returned = "state"
                            /\ r.g.opposite_ends[m.pos] = pos
                            /\ r.g.opposite_ends[pos] = m.pos
                            /\ \A x \in loop \ {m.pos, pos} :
                                   r.g.opposite_ends[x] =
                                       IF fits_kind(state.grid[x],
                                                    state.conn_pairs[2 * x],
                                                    state.conn_pairs[2 * x + 1])
                                       THEN -1 ELSE -2
                            /\ \A x \in (0..(W * H + 1)) \ loop :
                                   r.g.opposite_ends[x] = state.opposite_ends[x]
                            /\ \A x \in Cells \ loop :
                                   /\ r.g.conn_pairs[2 * x] = state.conn_pairs[2 * x]
                                   /\ r.g.conn_pairs[2 * x + 1] = state.conn_pairs[2 * x + 1]

(***************************************************************************)
(* Properties of move strings                                              *)
(***************************************************************************)
\* execute_move applied to the moves of a string one at a time, each call
\* on the result of the one before, from move k on.
RECURSIVE one_by_one(_, _, _)
one_by_one(g, moves, k) ==
    IF k > Len(moves)
    THEN g
    ELSE one_by_one(execute_move(g, <<moves[k]>>).g, moves, k + 1)

\* The strings compared: the drags, and every two moves from cell 3 or 7 of
\* which the second starts at the cell the first one leads to.
Strings ==
    Drags \cup {s \in {<<m, n>> : m \in {x \in GoodMoves : x.pos \in {3, 7}},
                                  n \in GoodMoves} :
                   s[2].pos = attempt_move(s[1].pos, knight_moves[s[1].i], W, H)}

\* C24: for a move string in which no move is rejected, execute_move on the
\* whole string yields the conn_pairs, opposite_ends and cursor of the
\* calls made one move at a time.  The strings are applied in every state
\* in which ExecuteMove makes a further call.
C24_StringEqualsMovesOneByOne ==
    (Playing /\ call.ncalls < MaxCalls) =>
        \A moves \in Strings :
            (\A k \in 1..Len(moves) : ~rejected(state, moves[k])) =>
                \A r \in {execute_move(state, moves)} :
                    \A g \in {one_by_one(state, moves, 1)} :
                        /\ r.returned = "state"
                        /\ r.g.conn_pairs = g.conn_pairs
                        /\ r.g.opposite_ends = g.opposite_ends
                        /\ r.g.cx = g.cx
                        /\ r.g.cy = g.cy

\* The first call was given a drag of six moves and returned a state: the
\* one the six moves give one by one, with the loop 3, 14, 18, 7 closed.
C24_Witness ==
    /\ Playing
    /\ call.ncalls = 1
    /\ call.nmoves = 6
    /\ call.returned = "state"
    /\ state.opposite_ends[18] = -3
    /\ \A drag \in Drags :
           state.conn_pairs = one_by_one(Loaded, drag, 1).conn_pairs

(***************************************************************************)
(* Properties of the calls of connect_ends                                 *)
(***************************************************************************)
\* The move m makes execute_move call connect_ends(opposite_ends, start,
\* pos): it is not ignored, it is a new connection and it closes no loop.
calls_connect_ends(g, m) ==
    LET start == m.pos
        pos == attempt_move(start, knight_moves[m.i], g.w, g.h)
        j == (m.i + 4) % 8
    IN  /\ ~(m.i \notin {g.conn_pairs[2 * start], g.conn_pairs[2 * start + 1]}
               /\ g.opposite_ends[start] < 0)
        /\ ~(j \notin {g.conn_pairs[2 * pos], g.conn_pairs[2 * pos + 1]}
               /\ g.opposite_ends[pos] < 0)
        /\ m.i \notin {g.conn_pairs[2 * start], g.conn_pairs[2 * start + 1]}
        /\ g.opposite_ends[start] # pos

\* From move k on, the moves of the string that reach the call of
\* connect_ends do so with two cells whose map entries are not negative.
\* The loop ends at a rejected move and at undefined behaviour.
RECURSIVE no_negative_entry(_, _, _)
no_negative_entry(g, moves, k) ==
    IF k > Len(moves) \/ rejected(g, moves[k])
    THEN TRUE
    ELSE /\ calls_connect_ends(g, moves[k]) =>
                connect_ends_in_bounds(
                    g.opposite_ends, moves[k].pos,
                    attempt_move(moves[k].pos, knight_moves[moves[k].i], g.w, g.h))
         /\ k < Len(moves) =>
                \A r \in {apply_move(g, moves[k])} :
                    r.ok => no_negative_entry(r.g, moves, k + 1)

\* C25: connect_ends is never called with a cell whose map entry is
\* negative: not by unique_solution on a walk-generated grid (no context
\* and no hint writing ever indexes outside the map), and not by
\* execute_move on the state new_game loads or on any state reached by the
\* player's moves, for any single move on the board and at every move of
\* every string of several moves.
C25_ConnectEndsGetsNoNegativeEntry ==
    /\ ~ub
    /\ pc # "aborted"
    /\ \A f \in 1..Len(stack) : stack[f].status # "bounds"
    /\ Playing =>
           \A g \in {dup_game(state)} :
               /\ \A m \in AllMoves : no_negative_entry(g, <<m>>, 1)
               /\ \A moves \in Batches :
                      Len(moves) > 1 => no_negative_entry(g, moves, 1)

\* The player has moved on a generated puzzle: unique_solution has accepted
\* the grid, and execute_move has joined three cells, so that the middle
\* one has a negative map entry and a move towards it from a free cell is
\* ignored before it reaches connect_ends.
C25_Witness ==
    /\ Playing
    /\ final_answer
    /\ desc = encode_desc(gs)
    /\ call.ncalls >= 2
    /\ call.returned = "state"
    /\ \E c \in Cells :
           /\ state.conn_pairs[2 * c] # 8
           /\ state.conn_pairs[2 * c + 1] # 8
           /\ ~state.start_pairs[2 * c]
           /\ ~state.start_pairs[2 * c + 1]
           /\ state.opposite_ends[c] \in {-1, -2}
           /\ \E m \in AllMoves :
                  /\ attempt_move(m.pos, knight_moves[m.i], W, H) = c
                  /\ state.opposite_ends[m.pos] >= 0
                  /\ m.i \notin {state.conn_pairs[2 * m.pos],
                                  state.conn_pairs[2 * m.pos + 1]}
                  /\ ~calls_connect_ends(state, m)

(***************************************************************************)
(* Properties of follow_path                                               *)
(***************************************************************************)
\* The move m takes back a connection that is not permanent and not part
\* of a marked loop: the branch of execute_move that calls follow_path.
reopens_chain(g, m) ==
    /\ \E k \in 0..1 : g.conn_pairs[2 * m.pos + k] = m.i
                          /\ ~g.start_pairs[2 * m.pos + k]
    /\ g.opposite_ends[m.pos] # -3

\* follow_path(g, cell) comes to an end at a cell with a free slot.
finds_free_slot(g, cell) ==
    \A end \in {follow_path(g, cell)} :
        /\ end.ok
        /\ on_board(g, end.pos)
        /\ conn_count(g, end.pos) < 2

\* C26: for any sequence of moves, every follow_path call made by
\* execute_move reaches a cell with a free connection slot and returns it;
\* no call runs back to its start or off the board.
C26_FollowPathFindsAFreeSlot ==
    /\ pc # "undefined"
    /\ Playing =>
           \A m \in AllMoves :
               reopens_chain(state, m) =>
                   \A r \in {execute_move(state, <<m>>)} :
                       /\ r.ok
                       /\ \A cell \in {m.pos, attempt_move(m.pos, knight_moves[m.i], W, H)} :
                              state.opposite_ends[cell] < 0 =>
                                  finds_free_slot(r.g, cell)

\* A state in which the model goes on to take back a connection in the
\* middle of a chain: follow_path has to walk from the freed cell to the
\* end of what is left.
C26_Witness ==
    /\ Playing
    /\ call.ncalls >= 2
    /\ call.ncalls < MaxCalls
    /\ \E m \in GoodMoves :
           /\ reopens_chain(state, m)
           /\ state.opposite_ends[m.pos] \in {-1, -2}
           /\ conn_count(state, m.pos) = 2
           /\ \A r \in {execute_move(state, <<m>>)} :
                  /\ r.g.opposite_ends[m.pos] # m.pos
                  /\ r.g.opposite_ends[m.pos] = follow_path(r.g, m.pos).pos

(***************************************************************************)
(* Properties of the completion scan                                       *)
(***************************************************************************)
\* The work queue of the running invocation is empty: the scan is next.
AtScan ==
    /\ pc = "unique_solution"
    /\ Top.at = "loop"
    /\ tdq_remove(Top.todo) = -1

Solved == pc = "unique_solution" /\ Top.at = "solved"

\* C27 as stated: success is reported at a leaf only when every cell index
\* 0..w*h-1 has opposite_ends == -1 in the leaf's context, and the scan
\* leaves no cell out.
C27_SuccessOnlyWhenEveryCellScanned ==
    /\ Solved => \A c \in Cells : Top.opposite_ends[c] = -1
    /\ AtScan => scanned_cells(ScanStart, W, H) = Cells

\* C27, amended: the scan looks at every cell but the random cell start it
\* begins after, and reports success exactly when all of those are -1; in
\* every context in which success is reported the cell start is -1 as well.
C27_SuccessOnlyWhenEveryCellClosed ==
    /\ Solved => \A c \in Cells : Top.opposite_ends[c] = -1
    /\ AtScan =>
           /\ scanned_cells(ScanStart, W, H) = Cells \ {ScanStart}
           /\ (ScanPos = ScanStart)
                  <=> (\A c \in Cells \ {ScanStart} : Top.opposite_ends[c] = -1)

\* A nested invocation has reported success after connections were forced.
C27_Witness ==
    /\ Solved
    /\ Len(stack) >= 2
    /\ Top.pos \in Cells
    /\ \A c \in Cells : Top.opposite_ends[c] = -1

(***************************************************************************)
(* Properties of the propagation loop                                      *)
(***************************************************************************)
\* The step taken is one iteration of the propagation loop that ran to its
\* end: no contradiction, assertion or access outside an array.
PropagationStep ==
    /\ pc = "unique_solution"
    /\ pc' = "unique_solution"
    /\ Top.at = "loop"
    /\ tdq_remove(Top.todo) > -1
    /\ Len(stack') = Len(stack)
    /\ stack'[Len(stack')].at = "loop"

in_queue(tdq, k) == \E n \in 1..Len(tdq) : tdq[n] = k

\* C28: whenever a step of the propagation loop forces a connection between
\* the popped cell and a neighbour, that neighbour is in the work queue when
\* the step ends.
C28_ForcedNeighbourIsQueued ==
    [][PropagationStep =>
          \A i \in 0..7 :
              \A k \in {8 * tdq_remove(Top.todo) + i} :
                  (~Top.connected[k] /\ stack'[Len(stack')].connected[k]) =>
                      in_queue(stack'[Len(stack')].todo, neighbors[k])]_vars

\* C29: whenever the work queue of an invocation becomes empty without a
\* contradiction, every cell whose opposite_ends is -1 has can_connect true
\* only in directions that are also connected.
C29_ClosedCellsKeepNoOpenCandidate ==
    AtScan =>
        \A c \in Cells :
            Top.opposite_ends[c] = -1 =>
                \A d \in 0..7 :
                    Top.can_connect[8 * c + d] => Top.connected[8 * c + d]

(***************************************************************************)
(* Properties of the contradiction test                                    *)
(***************************************************************************)
\* The cell the step takes from the queue, and the context after the first
\* loop of the step has removed the candidates towards closed cells.
Popped == tdq_remove(Top.todo)
Pruned == prune_closed([Top EXCEPT !.todo = tdq_removed(@)], Popped, 0)

\* No set of the remaining candidates, even of parity 0 and odd of parity 1,
\* satisfies the kind: one connection for an Endpoint, two of equal parity
\* for an OrthogonalTurn, two of different parity for a DiagonalTurn.
no_candidates_fit(kind, even, odd) ==
    ~\E S \in SUBSET ({<<0, n>> : n \in 1..even} \cup {<<1, n>> : n \in 1..odd}) :
        \/ (kind = 1 /\ Cardinality(S) = 1)
        \/ (kind = 2 /\ Cardinality(S) = 2 /\ \A x, y \in S : x[1] = y[1])
        \/ (kind = 3 /\ Cardinality(S) = 2 /\ \E x, y \in S : x[1] # y[1])

\* The cases the statement lists.
listed_contradiction(kind, even, odd) ==
    \/ (kind = 1 /\ even + odd = 0)
    \/ (kind = 2 /\ even = 1 /\ odd = 1)
    \/ (kind = 3 /\ (even = 0 \/ odd = 0))
    \/ (kind \in {2, 3} /\ even + odd < 2)

\* A step of the propagation loop on a cell that is not Unvisited.
StepOnVisitedCell ==
    /\ pc = "unique_solution"
    /\ Top.at = "loop"
    /\ Popped > -1
    /\ gs.grid[Popped] # 0
    /\ Len(stack') = Len(stack)

\* The branch that stops the loop on a chain end: the map gives the popped
\* turn cell another cell as its far end, two candidates are left, and the
\* one that is not the first connected direction fits the kind and leads
\* to that far end.
closes_own_chain(c, kind, pos) ==
    /\ kind # 1
    /\ c.opposite_ends[pos] > -1
    /\ c.opposite_ends[pos] # pos
    /\ ccon_count(c, pos, 0) + ccon_count(c, pos, 1) = 2
    /\ \E i \in 0..7 :
           /\ i # which_connected(c, pos)
           /\ c.can_connect[8 * pos + i]
           /\ (which_connected(c, pos) + kind + i) % 2 = 0
           /\ c.opposite_ends[neighbors[8 * pos + i]] # -1
           /\ neighbors[8 * pos + i] = c.opposite_ends[pos]

\* The chain of the popped turn cell is a loop already: the branch above is
\* taken, both candidates left are connections that have been made, and
\* one of them leads to the cell the map gives as the far end.  (A
\* candidate towards the far end that is not connected never reaches the
\* branch: prune_closed has dropped it.)
chain_already_closed(c, kind, pos) ==
    /\ closes_own_chain(c, kind, pos)
    /\ \A i \in 0..7 : c.can_connect[8 * pos + i] => c.connected[8 * pos + i]
    /\ \E i \in 0..7 :
           /\ c.connected[8 * pos + i]
           /\ neighbors[8 * pos + i] = c.opposite_ends[pos]

\* The test of the code, the listed cases and the meaning given to them
\* agree for every kind and all counts of candidates, 0 to 4 of each parity.
test_is_exact ==
    \A kind \in 1..3 : \A even, odd \in 0..4 :
        /\ listed_contradiction(kind, even, odd) <=> no_candidates_fit(kind, even, odd)
        /\ contradiction(kind, even, odd) <=> no_candidates_fit(kind, even, odd)

ctx_arrays(c) == <<c.can_connect, c.connected, c.opposite_ends, c.permanent_conns>>

\* The invocations that are waiting for a call to return, before or after
\* the step: every frame that is not the running one in both states.
Callers == {k \in 1..Len(stack) : k <= Len(stack') /\ (k < Len(stack) \/ k < Len(stack'))}

\* Some invocation on the stack has reported success.
success_reported(st) == \E k \in 1..Len(st) : st[k].at \in {"solved", "return_true"}

\* gs as the outermost call received it: no connection and no joined ends.
gs_untouched(g) ==
    /\ g.conn_pairs = init_game_state(W, H).conn_pairs
    /\ g.opposite_ends = init_game_state(W, H).opposite_ends

\* C31: in every step of unique_solution, a call, a return or a step of the
\* callee, the arrays of every waiting caller stay as they are; gs changes
\* only in the step in which a leaf reports success, and it is as the
\* outermost call received it as long as no invocation has reported success.
C31_FailedCallLeavesCallerAndGsAlone ==
    [][(pc = "unique_solution" /\ pc' = "unique_solution") =>
          /\ \A k \in Callers : ctx_arrays(stack'[k]) = ctx_arrays(stack[k])
          /\ (gs' # gs) => (Len(stack') = Len(stack) /\ Top.at = "loop"
                               /\ stack'[Len(stack')].at = "solved")
          /\ ~success_reported(stack') => gs_untouched(gs')]_vars

\* A recursive call has returned false and its caller, two or more levels
\* deep, is about to try its next direction.
C31_Witness ==
    /\ pc = "unique_solution"
    /\ Len(stack) >= 2
    /\ Top.at = "assume"
    /\ Top.index >= 1
    /\ assumable(Top, Top.index - 1)
    /\ gs_untouched(gs)

(***************************************************************************)
(* C32: the assertions of the propagation loop                             *)
(***************************************************************************)
\* The popped cell is a turn cell that passed the test on the counts and
\* whose opposite_ends is another index: the branch with the assertions.
StepOnChainEnd ==
    /\ StepOnVisitedCell
    /\ gs.grid[Popped] \in {2, 3}
    /\ ~contradiction(gs.grid[Popped], ccon_count(Pruned, Popped, 0),
                      ccon_count(Pruned, Popped, 1))
    /\ Pruned.opposite_ends[Popped] # Popped
    /\ Pruned.opposite_ends[Popped] > -1

\* C32: a step of the propagation loop on a turn cell whose opposite_ends is
\* another index finds a connected direction (which < 8), reaches the
\* loop-closing branch only with exactly two candidates left, and so ends
\* without a failed assertion; no step of the loop fails an assertion.
C32_AssertionsOfTheLoopHold ==
    [][(pc = "unique_solution" /\ Top.at = "loop" /\ Popped > -1) =>
          /\ stack'[Len(stack')].status # "assert"
          /\ StepOnChainEnd =>
                /\ which_connected(Pruned, Popped) < 8
                /\ closes_own_chain(Pruned, gs.grid[Popped], Popped) =>
                      (ccon_count(Pruned, Popped, 0) + ccon_count(Pruned, Popped, 1) = 2
                          /\ stack'[Len(stack')].status = "contradiction")]_vars

\* A step has reached the loop-closing branch: the running invocation has
\* stopped on a turn cell with a connected direction whose second
\* candidate leads to the other end of its own chain.
C32_Witness ==
    /\ pc = "unique_solution"
    /\ Len(stack) >= 1
    /\ Top.status = "contradiction"
    /\ \E c \in Cells :
          /\ gs.grid[c] \in {2, 3}
          /\ which_connected(Top, c) < 8
          /\ closes_own_chain(Top, gs.grid[c], c)

(***************************************************************************)
(* C33: the work-queue loop of one invocation terminates                   *)
(***************************************************************************)
\* The context after the step when the queue was empty before it: its queue
\* holds exactly the cells the step has enqueued.
StepFromEmptyQueue == loop_body(gs.grid, [Top EXCEPT !.todo = tdq_new(W * H)], Popped)

\* No candidate comes back and no connection is taken away.
never_undone(before, after) ==
    \A k \in 0..(8 * W * H - 1) :
        /\ after.can_connect[k] => before.can_connect[k]
        /\ before.connected[k] => after.connected[k]

\* A can_connect entry went from true to false or a connected entry from
\* false to true.
progress_made(before, after) ==
    \E k \in 0..(8 * W * H - 1) :
        \/ before.can_connect[k] /\ ~after.can_connect[k]
        \/ ~before.connected[k] /\ after.connected[k]

\* What is left to do: the candidates that can still go and the connections
\* that can still come, each weighing more than a full queue, and the cells
\* in the queue.
work_left(c) ==
    (Cardinality({k \in 0..(8 * W * H - 1) : c.can_connect[k]})
        + Cardinality({k \in 0..(8 * W * H - 1) : ~c.connected[k]})) * (W * H + 1)
    + Len(c.todo)

\* C33: a step of the loop never brings a candidate back nor takes a
\* connection away, and a step that enqueues a cell removes a candidate or
\* adds a connection; the queue never holds more than w * h cells, so every
\* step leaves less to do than there was, and the loop of an invocation
\* comes to its end.
C33_WorkQueueLoopTerminates ==
    [][(pc = "unique_solution" /\ Top.at = "loop" /\ Popped > -1) =>
          /\ never_undone(Top, stack'[Len(stack')])
          /\ StepFromEmptyQueue.todo # tdq_new(W * H)
                => progress_made(Top, stack'[Len(stack')])
          /\ Len(stack'[Len(stack')].todo) <= W * H
          /\ 0 <= work_left(stack'[Len(stack')])
          /\ work_left(stack'[Len(stack')]) < work_left(Top)]_vars

\* The loop of a recursive invocation has ended with an empty queue after
\* steps that enqueued cells: candidates are gone and connections are made.
C33_Witness ==
    /\ pc = "unique_solution"
    /\ Len(stack) >= 2
    /\ Top.at = "assume"
    /\ tdq_remove(Top.todo) = -1
    /\ progress_made(stack[Len(stack) - 1], Top)

(***************************************************************************)
(* C34: what hamilton_check_result accepts                                 *)
(***************************************************************************)
\* The number of ends of active edges at the vertex v.
active_degree(hp, v) ==
    Cardinality({k \in 1..(2 * hp.nedges) :
                    /\ hp.edges[(k + 1) \div 2].active
                    /\ hp.edges[(k + 1) \div 2].ends[((k + 1) % 2) + 1] = v})

\* The vertices an active edge joins to a vertex of S.
active_step(hp, S) ==
    S \cup {v \in 0..(hp.nvertices - 1) :
               \E e \in 1..hp.nedges : \E u \in S :
                   /\ hp.edges[e].active
                   /\ {hp.edges[e].ends[1], hp.edges[e].ends[2]} = {u, v}}

RECURSIVE active_component(_, _)
active_component(hp, S) ==
    IF active_step(hp, S) = S THEN S ELSE active_component(hp, active_step(hp, S))

every_degree_two(hp) == \A v \in 0..(hp.nvertices - 1) : active_degree(hp, v) = 2

\* The active edges are one cycle through every vertex: degree 2 everywhere
\* and every vertex joined to the start vertex.
one_cycle(hp) ==
    /\ every_degree_two(hp)
    /\ active_component(hp, {hp.start_vertex}) = 0..(hp.nvertices - 1)

\* C34: hamilton_check_result returns true exactly when the active edges
\* give every vertex degree 2 and form one cycle through all the vertices;
\* hamilton_run returns then, and starts another attempt otherwise.
C34_CheckAcceptsExactlyOneCycle ==
    [][pc = "check_result" =>
          /\ hamilton_check_result(ham).ok <=> one_cycle(ham)
          /\ pc' = "returned" <=> one_cycle(ham)
          /\ pc' = "try_converge" <=> ~one_cycle(ham)]_vars

\* A converged attempt in which every vertex has degree 2 and the active
\* edges are more than one cycle has been rejected: the next attempt is due.
C34_Witness ==
    /\ pc = "try_converge"
    /\ ham.ready
    /\ run.nok >= 1
    /\ every_degree_two(ham)
    /\ ~one_cycle(ham)

(***************************************************************************)
(* C35: the delta of hamilton_iteration                                    *)
(***************************************************************************)
\* No edge joins a vertex to itself and no two edges join the same vertices.
simple_graph(hp) ==
    /\ \A e \in 1..hp.nedges : hp.edges[e].ends[1] # hp.edges[e].ends[2]
    /\ \A e, f \in 1..hp.nedges :
          e # f => {hp.edges[e].ends[1], hp.edges[e].ends[2]}
                      # {hp.edges[f].ends[1], hp.edges[f].ends[2]}

\* d: the number of active edges at every vertex.
active_degrees(hp) == [v \in 0..(hp.nvertices - 1) |-> active_degree(hp, v)]

\* (2 - d(u)) + (2 - d(v)) for the edge e = (u, v).
degree_delta(hp, d, e) == (2 - d[hp.edges[e].ends[1]]) + (2 - d[hp.edges[e].ends[2]])

\* A pass of hamilton_iteration is about to run.
IterationStep == pc = "iterate" /\ run.iter < run.iter_limit

\* C35: on a graph without self-loops or duplicate edges, a pass of
\* hamilton_iteration adds (2 - d(u)) + (2 - d(v)) to the level of every
\* edge (u, v), d counting the edges active when the pass began, and it
\* reports stable exactly when every one of these deltas is 0.
C35_DeltaIsTheDegreeDeficit ==
    [][(IterationStep /\ simple_graph(ham)) =>
          \A d \in {active_degrees(ham)} :
             /\ \A e \in 1..ham.nedges :
                   ham'.edges[e].level = ham.edges[e].level + degree_delta(ham, d, e)
             /\ hamilton_iteration(ham.edges).stable
                   <=> \A e \in 1..ham.nedges : degree_delta(ham, d, e) = 0
             /\ pc' = "check_result"
                   <=> \A e \in 1..ham.nedges : degree_delta(ham, d, e) = 0]_vars

\* Passes with deltas other than 0 have run on a graph without self-loops
\* or duplicate edges, raising one level and lowering another, and the last
\* pass was stable.
C35_Witness ==
    /\ pc = "check_result"
    /\ simple_graph(ham)
    /\ run.iter >= 2
    /\ \E e \in 1..ham.nedges : ham.edges[e].level < 0
    /\ \E e \in 1..ham.nedges : ham.edges[e].level > 0

(***************************************************************************)
(* C36: the two passes of hamilton_iteration                               *)
(***************************************************************************)
\* C36: in one pass of hamilton_iteration the level of every edge moves by
\* the delta of the flags as they were when the pass began; after it an
\* edge is active if its level is above 48, inactive if its level is below
\* 0, and has the flag it had before if its level is from 0 to 48.
C36_FlagsFollowTheLevelsOfTheSamePass ==
    [][IterationStep =>
          \A d \in {active_degrees(ham)} : \A e \in 1..ham.nedges :
             /\ ham'.edges[e].level = ham.edges[e].level + degree_delta(ham, d, e)
             /\ ham'.edges[e].level > 48 => ham'.edges[e].active
             /\ ham'.edges[e].level < 0 => ~ham'.edges[e].active
             /\ (0 <= ham'.edges[e].level /\ ham'.edges[e].level <= 48)
                   => (ham'.edges[e].active <=> ham.edges[e].active)]_vars

\* After some passes one edge is on with a level above 48, one is off with
\* a level below 0, and one with a level from 0 to 48 is on.
C36_Witness ==
    /\ pc \in {"iterate", "check_result"}
    /\ run.iter >= 1
    /\ \E e \in 1..ham.nedges : ham.edges[e].level > 48 /\ ham.edges[e].active
    /\ \E e \in 1..ham.nedges : ham.edges[e].level < 0 /\ ~ham.edges[e].active
    /\ \E e \in 1..ham.nedges :
          /\ ham.edges[e].level >= 0
          /\ ham.edges[e].level <= 48
          /\ ham.edges[e].active

(***************************************************************************)
(* C37: the trace after the degree check                                   *)
(***************************************************************************)
\* The return the trace takes on the converged edges.
TraceReturn ==
    trace_return(degrees_counted(ham).h, 0, ham.start_vertex,
                 degrees_counted(ham).h.vedges[ham.start_vertex][1])

\* Whatever edges are active, a trace after a passed degree check is not
\* rejected as too long.
no_flags_too_long ==
    \A on \in SUBSET (1..ham.nedges) :
        \A hp \in {with_active(on)} :
            degree_check_passed(hp) =>
                trace_return(degrees_counted(hp).h, 0, hp.start_vertex,
                             degrees_counted(hp).h.vedges[hp.start_vertex][1])
                    # "too long"

\* C37: when the degree check of hamilton_check_result has passed, the trace
\* is back at the start vertex after exactly nvertices steps, and the result
\* is true, or it is rejected before as too short, the cycle through the
\* start vertex having fewer than nvertices vertices; it is never rejected
\* as too long, neither on the converged edges nor on any other choice of
\* active edges of the same graph that passes the degree check.
C37_TraceIsNeverTooLong ==
    [][(pc = "check_result" /\ degree_check_passed(ham)) =>
          /\ TraceReturn # "too long"
          /\ no_flags_too_long
          /\ TraceReturn = "cycle" <=> hamilton_check_result(ham).ok
          /\ TraceReturn = "cycle" =>
                Cardinality(active_component(ham, {ham.start_vertex})) = ham.nvertices
          /\ TraceReturn = "too short" =>
                Cardinality(active_component(ham, {ham.start_vertex})) < ham.nvertices]_vars

\* The degree check has passed on six vertices and the trace was back at
\* the start vertex after three steps: the attempt was rejected as too short.
C37_Witness ==
    /\ pc = "try_converge"
    /\ ham.ready
    /\ run.nok >= 1
    /\ ham.nvertices = 6
    /\ \A v \in 0..(ham.nvertices - 1) : ham.vdegree[v] = 2
    /\ \A e \in 1..ham.nedges : ham.edges[e].active
    /\ Cardinality(active_component(ham, {ham.start_vertex})) = 3

(***************************************************************************)
(* C38: the start of the cycle in the output                               *)
(***************************************************************************)
\* C38: in cycle mode, when hamilton_run has returned, output_vertices[0]
\* is the start vertex given to hamilton_cycle_new, reversed or not.
C38_CycleOutputStartsAtStartVertex ==
    (pc = "returned" /\ ~ham.is_path) => ham.output_vertices[0] = ham.start_vertex

\* hamilton_run has returned in cycle mode with the order reversed: the
\* output is not in the order in which the trace wrote it.
C38_Witness ==
    /\ pc = "returned"
    /\ ~ham.is_path
    /\ ham.start_vertex # 0
    /\ ham.output_vertices # hamilton_check_result(ham).h.output_vertices
    /\ ham.output_vertices[0] = ham.start_vertex

(***************************************************************************)
(* C39: hamilton_add_edge after hamilton_run                               *)
(***************************************************************************)
\* The ends of the edges, in the order of the edge array.
edge_set(hp) == [e \in 1..hp.nedges |-> hp.edges[e].ends]

\* C39: ready is set by hamilton_run and never cleared; a call of
\* hamilton_add_edge before the run adds one edge; from then on the edge set
\* stays as it is, and a call of hamilton_add_edge after the run ends in its
\* assertion with the solver unchanged.
C39_AddEdgeOnlyBeforeTheRun ==
    [][/\ ham.ready => (ham'.ready /\ edge_set(ham') = edge_set(ham))
       /\ (pc = "hamilton_run" /\ pc' = "try_converge") => ham'.ready
       /\ (pc = "hamilton_run" /\ pc' = "hamilton_run") =>
             /\ ~ham.ready /\ ~ham'.ready
             /\ \E edge \in NewEdges : edge_set(ham') = Append(edge_set(ham), edge)
       /\ pc = "returned" => (ham.ready /\ pc' = "aborted" /\ ham' = ham)]_vars

\* hamilton_add_edge was called after hamilton_run had returned: the
\* assertion has failed and the graph has the edges it was run on.
C39_Witness ==
    /\ pc = "aborted"
    /\ ham.ready
    /\ ham.nedges = MaxBuild
    /\ edge_set(ham) = << <<0, 1>>, <<1, 2>>, <<2, 0>> >>

(***************************************************************************)
(* C40: attempt_move                                                       *)
(***************************************************************************)
\* The column and the row of a cell on a board w wide.
column(pos, w) == pos % w
row(pos, w) == pos \div w

\* C40: for the cell pos = y * w + x and the knight move (dx, dy),
\* attempt_move returns the index of (x + dx, y + dy) when that is on the
\* board, a cell dx columns and dy rows away from pos, and -1 when it is not.
C40_AttemptMoveStaysOnTheBoard ==
    pc = "moved" =>
        \A dx \in {knight_moves[call.i].x} : \A dy \in {knight_moves[call.i].y} :
        \A x \in {column(call.pos, call.w)} : \A y \in {row(call.pos, call.w)} :
            IF 0 <= x + dx /\ x + dx < call.w /\ 0 <= y + dy /\ y + dy < call.h
            THEN /\ call.returned = (y + dy) * call.w + (x + dx)
                 /\ call.returned \in 0..(call.w * call.h - 1)
                 /\ column(call.returned, call.w) - x = dx
                 /\ row(call.returned, call.w) - y = dy
            ELSE call.returned = -1

\* A move to the right from the last column, whose index pos + dy * w + dx
\* is a cell of the next row, has returned -1.
C40_Witness ==
    /\ pc = "moved"
    /\ column(call.pos, call.w) = call.w - 1
    /\ knight_moves[call.i].x > 0
    /\ call.pos + knight_moves[call.i].y * call.w + knight_moves[call.i].x
          \in 0..(call.w * call.h - 1)
    /\ call.returned = -1

====
